---- MODULE Spec2Model ----
(***************************************************************************)
(* Model of the post-OCR core of receipt-reader                            *)
(* (src/logic/gemini_client.py): the OCR gateway with retry and fallback,  *)
(* the detailed (split) scan with its tile worker pool, and the record     *)
(* reconciliation pass _merge_records.                                     *)
(*                                                                         *)
(* Texts (vendor, subject) are sequences of one-character strings, so that *)
(* normalisation and substring containment are computed, not assumed.      *)
(***************************************************************************)
EXTENDS Integers, Sequences, FiniteSets, TLC

VARIABLES
    \* ---- reconciliation (_merge_records) ----
    records,         \* the draft objects, by list position (mutated in place)
    groups,          \* sequence of [gid, members]: the groups dict, insertion order
    merged_results,  \* sequence of positions in records: the returned list
    mphase,          \* "idle" | "drafts" | "merged" | "remerged"
    \* ---- one single-image analysis (_analyze_single_image) ----
    gemini_key,      \* GEMINI_API_KEY is set
    openai_key,      \* OPENAI_API_KEY is set
    spc,             \* position of the call
    g_calls,         \* outcomes of the calls made to the primary backend, in order
    o_calls,         \* outcomes of the calls made to the secondary backend, in order
    raw_text,        \* the response text (a sequence of lines), <<>> for None
    backend_used,
    s_result,        \* the returned record list
    \* ---- one detailed scan (_analyze_receipt_image_split) ----
    dpc,             \* position of the main thread
    all_records,     \* the list the drafts are gathered in
    whole_out,       \* what the whole-image pass returned (history)
    files,           \* tiles whose temporary file exists
    task,            \* the future of each tile: [st, ok, recs]
    collected,       \* tiles whose future the as_completed loop has handled
    \* ---- one call of a field normaliser ----
    xpc,             \* "idle" | "call" | "done"
    x_in,            \* the arguments
    x_out            \* the returned tuple

mergeVars == <<records, groups, merged_results, mphase>>

singleVars == <<gemini_key, openai_key, spc, g_calls, o_calls, raw_text, backend_used, s_result>>

splitVars == <<dpc, all_records, whole_out, files, task, collected>>

fieldVars == <<xpc, x_in, x_out>>

vars == <<records, groups, merged_results, mphase,
          gemini_key, openai_key, spc, g_calls, o_calls, raw_text, backend_used, s_result,
          dpc, all_records, whole_out, files, task, collected,
          xpc, x_in, x_out>>

-----------------------------------------------------------------------------
(* Text helpers *)

\* unicodedata.normalize("NFKC", c).lower() for the characters used here
nfkc_lower(c) ==
    CASE c = "S" -> "s"
      [] c = "E" -> "e"
      [] c = "V" -> "v"
      [] c = "N" -> "n"
      [] c = "J" -> "j"
      [] c = "U" -> "u"
      [] c = "L" -> "l"
      [] c = "T" -> "t"
      [] c = "FW_S" -> "s"      \* full-width S folds to S, then lowers
      [] OTHER -> c

\* the characters the regex [^0-9a-z kana kanji] keeps
KeptChars == {"a","e","i","j","k","l","n","o","s","t","u","v","w","x","0","1","2"}

normalize_text(text) ==
    LET folded == [i \in 1..Len(text) |-> nfkc_lower(text[i])]
        keep(c) == c \in KeptChars
    IN  IF text = <<>> THEN <<>> ELSE SelectSeq(folded, keep)

\* Python's "a in b" on strings
IsSubstr(a, b) ==
    \E k \in 0..(Len(b) - Len(a)) : SubSeq(b, k + 1, k + Len(a)) = a

Txt_unknown == <<"u","n","k","n","o","w","n">>
Txt_q       == <<"?">>

\* ascending sequence of a finite set of integers
RECURSIVE SortedSeq(_)
SortedSeq(S) ==
    IF S = {} THEN <<>>
    ELSE LET m == CHOOSE x \in S : \A y \in S : x <= y
         IN  <<m>> \o SortedSeq(S \ {m})

Range(s) == {s[i] : i \in 1..Len(s)}

-----------------------------------------------------------------------------
(* Draft construction: the tail of _analyze_single_image *)

TaxUnknown == "unknown"
PayUnknown == "unknown"

AppendIf(s, cond, x) == IF cond THEN Append(s, x) ELSE s

\* x: the per-item results of the field normalisers and mappers
\*   best_date, date_needs_review, vendor, subject, total_amount,
\*   tax_rate, payment, invoice_norm, invoice_low_conf
make_record(x, i) ==
    LET m1 == AppendIf(<<>>, x.best_date = "", "date")
        m2 == AppendIf(m1, x.vendor = <<>> \/ x.vendor = Txt_q, "vendor")
        m3 == AppendIf(m2, x.total_amount = 0, "total_amount")
        m4 == AppendIf(m3, x.tax_rate = TaxUnknown, "tax_rate")
        m5 == AppendIf(m4, x.payment = PayUnknown, "payment_method")
        m6 == AppendIf(m5, x.date_needs_review /\ "date_year_out_of_range" \notin Range(m5),
                       "date_year_out_of_range")
        m7 == AppendIf(m6, x.invoice_low_conf /\ "invoice_no_candidate" \notin Range(m6),
                       "invoice_no_candidate")
    IN  [ date              |-> x.best_date,
          vendor            |-> x.vendor,
          subject           |-> x.subject,
          total_amount      |-> x.total_amount,
          invoice_no_norm   |-> IF x.invoice_low_conf THEN "" ELSE x.invoice_norm,
          invoice_candidate |-> IF x.invoice_low_conf THEN x.invoice_norm ELSE "",
          tax_rate_detected |-> x.tax_rate,
          payment_method    |-> x.payment,
          needs_review      |-> (m5 # <<>>) \/ x.date_needs_review \/ x.invoice_low_conf,
          missing_fields    |-> m7,
          segment_id        |-> <<"seg", i>>,
          merge_candidates  |-> <<>>,
          merge_reason      |-> "",
          group_id          |-> <<>> ]

-----------------------------------------------------------------------------
(* Reconciliation: _calculate_score and _merge_records *)

calculate_score(rec) ==
      (IF rec.invoice_no_norm # "" THEN 30 ELSE 0)
    + (IF rec.invoice_candidate # "" THEN 10 ELSE 0)
    + (IF rec.date # "" THEN 20 ELSE 0)
    + (IF rec.vendor # <<>> /\ rec.vendor # Txt_q THEN 15 ELSE 0)
    + (IF rec.total_amount > 0 THEN 15 ELSE 0)
    + (IF rec.tax_rate_detected # TaxUnknown THEN 10 ELSE 0)
    + (IF rec.payment_method # PayUnknown THEN 10 ELSE 0)
    - Len(rec.missing_fields) * 5
    - (IF rec.needs_review THEN 5 ELSE 0)

\* the vendor test of the fuzzy tier (lines 826-835)
vendor_match(v1, v2) ==
    \/ v1 = v2
    \/ v1 = <<>> \/ v2 = <<>> \/ v1 = Txt_unknown \/ v2 = Txt_unknown
    \/ IsSubstr(v1, v2) \/ IsSubstr(v2, v1)

\* an inner loop that compares the date and the vendor only
fuzzy_members_ignoring_amount(recs, i, skipped) ==
    {j \in (i + 1)..Len(recs) :
        /\ j \notin skipped
        /\ recs[i].date = recs[j].date
        /\ vendor_match(normalize_text(recs[i].vendor), normalize_text(recs[j].vendor))}

\* members the inner loop collects for leader i (lines 817-839)
fuzzy_members(recs, i, skipped) ==
    {j \in (i + 1)..Len(recs) :
        /\ j \notin skipped
        /\ recs[i].date = recs[j].date
        /\ recs[i].total_amount = recs[j].total_amount
        /\ vendor_match(normalize_text(recs[i].vendor), normalize_text(recs[j].vendor))}

\* the outer loop of the fuzzy tier from position i on (lines 804-848);
\* result: [groups, skipped]
RECURSIVE fuzzy_pass(_, _, _, _)
fuzzy_pass(recs, i, skipped, acc) ==
    IF i > Len(recs) THEN [groups |-> acc, skipped |-> skipped]
    ELSE IF i \in skipped \/ ~(recs[i].date # "" /\ recs[i].total_amount > 0)
         THEN fuzzy_pass(recs, i + 1, skipped, acc)
    ELSE LET ms == fuzzy_members(recs, i, skipped)
         IN  IF ms = {} THEN fuzzy_pass(recs, i + 1, skipped, acc)
             ELSE fuzzy_pass(recs, i + 1, skipped \cup ms \cup {i},
                             Append(acc, [gid |-> <<"fuzzy", i>>,
                                          members |-> <<i>> \o SortedSeq(ms)]))

\* tier 2 key (lines 853-858); <<>> when the draft is not keyed
key2(rec) ==
    IF rec.date # "" /\ rec.total_amount > 0 /\ normalize_text(rec.subject) # <<>>
    THEN <<rec.date, rec.total_amount, normalize_text(rec.subject)>>
    ELSE <<>>

\* a fallback key made of amount and vendor only
key3_ignoring_subject(rec) ==
    IF rec.total_amount > 0 /\ rec.vendor # <<>> /\ rec.vendor # Txt_q
    THEN <<rec.total_amount, normalize_text(rec.vendor)>>
    ELSE <<>>

\* tier 3 key (lines 871-875)
key3(rec) ==
    IF rec.total_amount > 0 /\ rec.vendor # <<>> /\ rec.vendor # Txt_q
    THEN <<rec.total_amount, normalize_text(rec.vendor), normalize_text(rec.subject)>>
    ELSE <<>>

\* the keys of all drafts, by position
keys2(recs) == [i \in 1..Len(recs) |-> key2(recs[i])]

keys3(recs) == [i \in 1..Len(recs) |-> key3(recs[i])]

\* bucket the remaining drafts by key and keep buckets of two or more
\* (lines 860-866 and 877-883); groups in order of first insertion
keyed_groups(keys, remaining, tier) ==
    LET bucket(i) == {j \in remaining : keys[j] = keys[i]}
        firsts == {i \in remaining :
                      /\ keys[i] # <<>>
                      /\ Cardinality(bucket(i)) > 1
                      /\ \A j \in bucket(i) : i <= j}
        fs == SortedSeq(firsts)
    IN  [k \in 1..Len(fs) |-> [gid |-> <<tier, fs[k]>>,
                               members |-> SortedSeq(bucket(fs[k]))]]

Members(gs) == UNION {Range(gs[k].members) : k \in 1..Len(gs)}

\* a grouping whose second tier forgets to leave out the drafts the fuzzy tier claimed
build_groups_tier2_over_all(recs) ==
    LET all == 1..Len(recs)
        g1  == fuzzy_pass(recs, 1, {}, <<>>).groups
        g2  == keyed_groups(keys2(recs), all, "strat2")
        r2  == (all \ Members(g1)) \ Members(g2)
        g3  == keyed_groups(keys3(recs), r2, "strat3")
        r3  == SortedSeq(r2 \ Members(g3))
        g4  == [k \in 1..Len(r3) |-> [gid |-> <<"single", r3[k]>>, members |-> <<r3[k]>>]]
    IN  g1 \o g2 \o g3 \o g4

\* the grouping half of _merge_records (lines 789-887)
build_groups(recs) ==
    LET all == 1..Len(recs)
        g1  == fuzzy_pass(recs, 1, {}, <<>>).groups
        r1  == all \ Members(g1)
        g2  == keyed_groups(keys2(recs), r1, "strat2")
        r2  == r1 \ Members(g2)
        g3  == keyed_groups(keys3(recs), r2, "strat3")
        r3  == SortedSeq(r2 \ Members(g3))
        g4  == [k \in 1..Len(r3) |-> [gid |-> <<"single", r3[k]>>, members |-> <<r3[k]>>]]
    IN  g1 \o g2 \o g3 \o g4

\* a reason lookup that knows no tier
group_reason_unknown(gid) == "Unknown Strategy"

\* group_reasons.get(str(gid), "Unknown Strategy"), lines 842, 863, 880 and 924
group_reason(gid) ==
    CASE gid[1] = "fuzzy"  -> "Fuzzy Match (Date/Amount + Vendor)"
      [] gid[1] = "strat2" -> "Exact Match (Date/Amount/Subject)"
      [] gid[1] = "strat3" -> "Fallback Match (Amount/Vendor/Subject)"
      [] OTHER -> "Unknown Strategy"

\* a selection that resolves ties to the last member of maximal score
best_of_last_max(recs, members) ==
    LET k == CHOOSE k \in 1..Len(members) :
                /\ \A l \in 1..Len(members) :
                      calculate_score(recs[members[l]]) <= calculate_score(recs[members[k]])
                /\ \A l \in (k + 1)..Len(members) :
                      calculate_score(recs[members[l]]) < calculate_score(recs[members[k]])
    IN  members[k]

\* max(group_recs, key=_calculate_score): the first member of maximal score
best_of(recs, members) ==
    LET k == CHOOSE k \in 1..Len(members) :
                /\ \A l \in 1..Len(members) :
                      calculate_score(recs[members[l]]) <= calculate_score(recs[members[k]])
                /\ \A l \in 1..(k - 1) :
                      calculate_score(recs[members[l]]) < calculate_score(recs[members[k]])
    IN  members[k]

\* a merge that keeps only what the representative itself had
final_invoice_rep_only(recs, members, b) == recs[b].invoice_no_norm

\* lines 906-911: the representative's confirmed invoice, else the first member's
final_invoice(recs, members, b) ==
    IF recs[b].invoice_no_norm # "" THEN recs[b].invoice_no_norm
    ELSE LET have == {k \in 1..Len(members) : recs[members[k]].invoice_no_norm # ""}
         IN  IF have = {} THEN ""
             ELSE recs[members[CHOOSE k \in have : \A l \in have : k <= l]].invoice_no_norm

\* the representative after lines 918-936 (the object is changed in place)
merged_rep(recs, g) ==
    LET b  == best_of(recs, g.members)
        fi == final_invoice(recs, g.members, b)
        r1 == IF fi # "" /\ recs[b].invoice_no_norm = ""
              THEN [recs[b] EXCEPT !.invoice_no_norm = fi]
              ELSE recs[b]
        snap(r) == [date |-> r.date, vendor |-> r.vendor, total_amount |-> r.total_amount,
                    invoice_no |-> r.invoice_no_norm, needs_review |-> r.needs_review,
                    source |-> IF r.segment_id # <<>> THEN "split" ELSE "full"]
        cur(k) == IF g.members[k] = b THEN r1 ELSE recs[g.members[k]]
    IN  [r1 EXCEPT !.group_id = g.gid,
                   !.merge_reason = group_reason(g.gid),
                   !.merge_candidates = [k \in 1..Len(g.members) |-> snap(cur(k))]]

\* position of the object a group emits
rep_of(recs, g) ==
    IF Len(g.members) = 1 THEN g.members[1] ELSE best_of(recs, g.members)

-----------------------------------------------------------------------------
(* Bounded inputs of the reconciliation specification *)

MaxDrafts == 3

V_q      == <<"?">>
V_seven  == <<"S","e","v","e","n">>
V_sevenj == <<"S","e","v","e","n","-","J">>
V_law    == <<"L","a","w">>
S_lunch  == <<"l","u","n","-","1">>

T1 == "T1234567890123"
T2 == "T9999999999999"

NormOut(d, dn, v, s, a, t, p, inv, low) ==
    [best_date |-> d, date_needs_review |-> dn, vendor |-> v, subject |-> s,
     total_amount |-> a, tax_rate |-> t, payment |-> p,
     invoice_norm |-> inv, invoice_low_conf |-> low]

\* normaliser outputs for drafts that differ in their grouping keys
KeyPool ==
    { NormOut(d, d = "", v, s, 1000, "10%", "cash", "", FALSE) :
        d \in {"2026/10/01", ""}, v \in {V_seven, V_sevenj, V_law, V_q},
        s \in {<<>>, S_lunch} }

\* normaliser outputs for drafts of one receipt that differ in quality
QualPool ==
    { NormOut("2026/10/01", FALSE, v, <<>>, 1000, t, "cash", inv[1], inv[2]) :
        v \in {V_seven, V_q}, t \in {"10%", TaxUnknown},
        inv \in {<<"", FALSE>>, <<T1, FALSE>>, <<T1, TRUE>>, <<T2, FALSE>>} }

\* normaliser outputs for drafts that differ in amount as well as in the other
\* key fields (the test's third draft has amount 2000)
AmtPool ==
    { NormOut(d, d = "", v, sj, a, "10%", "cash", "", FALSE) :
        d \in {"2026/10/01", ""}, v \in {V_seven, V_law},
        sj \in {<<>>, S_lunch}, a \in {1000, 2000} }

Tiles == 0..4

NoTask == [st |-> "none", ok |-> FALSE, recs |-> <<>>]

FieldIdle ==
    /\ xpc = "idle"
    /\ x_in = <<>>
    /\ x_out = <<>>

SplitIdle ==
    /\ dpc = "idle"
    /\ all_records = <<>>
    /\ whole_out = <<>>
    /\ files = {}
    /\ task = [i \in Tiles |-> NoTask]
    /\ collected = {}

SingleIdle ==
    /\ gemini_key = FALSE
    /\ openai_key = FALSE
    /\ spc = "idle"
    /\ g_calls = <<>>
    /\ o_calls = <<>>
    /\ raw_text = [is_none |-> TRUE, lines |-> <<>>]
    /\ backend_used = "None"
    /\ s_result = <<>>

InitMergeFrom(pool) ==
    /\ \E n \in 0..MaxDrafts : \E its \in [1..n -> pool] :
          records = [i \in 1..n |-> make_record(its[i], i - 1)]
    /\ groups = <<>>
    /\ merged_results = <<>>
    /\ mphase = "drafts"
    /\ SingleIdle
    /\ SplitIdle
    /\ FieldIdle

\* the body of _merge_records(recs), lines 770-944; the representative objects
\* are changed in place
Reconcile(recs) ==
    /\ groups' = IF recs = <<>> THEN <<>> ELSE build_groups(recs)
    /\ merged_results' = [k \in 1..Len(groups') |-> rep_of(recs, groups'[k])]
    /\ records' = [i \in 1..Len(recs) |->
                     IF \E k \in 1..Len(groups') :
                            Len(groups'[k].members) > 1 /\ merged_results'[k] = i
                     THEN merged_rep(recs,
                                     groups'[CHOOSE k \in 1..Len(groups') : merged_results'[k] = i])
                     ELSE recs[i]]

\* _merge_records(recs) called on the drafts
Merge(recs) ==
    /\ Reconcile(recs)
    /\ mphase' = "merged"

\* AnalysisResult.records: the objects merged_results holds, in order
Output == [k \in 1..Len(merged_results) |-> records[merged_results[k]]]

MergeRecords ==
    /\ mphase = "drafts"
    /\ Merge(records)
    /\ UNCHANGED singleVars
    /\ UNCHANGED splitVars
    /\ UNCHANGED fieldVars

NextMerge == MergeRecords

InitMerge == InitMergeFrom(KeyPool)

SpecMerge == InitMerge /\ [][NextMerge]_vars

InitMergeRep == InitMergeFrom(QualPool)

SpecMergeRep == InitMergeRep /\ [][NextMerge]_vars

InitMergeAmt == InitMergeFrom(AmtPool)

SpecMergeAmt == InitMergeAmt /\ [][NextMerge]_vars

\* normaliser outputs for drafts of receipts of two different days, and drafts
\* whose date was not read
DatePool ==
    { NormOut(d, d = "", v, sj, 1000, "10%", "cash", "", FALSE) :
        d \in {"2026/10/01", "2026/10/02", ""}, v \in {V_seven, V_law},
        sj \in {<<>>, S_lunch} }

InitMergeDate == InitMergeFrom(DatePool)

SpecMergeDate == InitMergeDate /\ [][NextMerge]_vars

\* _merge_records called once more, on the records it returned
MergeAgain ==
    /\ mphase = "merged"
    /\ Reconcile(Output)
    /\ mphase' = "remerged"
    /\ UNCHANGED singleVars
    /\ UNCHANGED splitVars
    /\ UNCHANGED fieldVars

NextMergeTwice ==
    \/ MergeRecords
    \/ MergeAgain

SpecMergeTwice == InitMergeAmt /\ [][NextMergeTwice]_vars

-----------------------------------------------------------------------------
(* OCR gateway: RETRY_DECORATOR, _parse_response_text, _analyze_single_image *)

MaxAttempts == 3

\* str(e).lower(), word by word, for the words used here
lower_word(w) ==
    CASE w = "Quota" -> "quota"
      [] w = "Rate"  -> "rate"
      [] w = "LIMIT" -> "limit"
      [] w = "HTTP"  -> "http"
      [] OTHER -> w

\* the tokens of _is_retryable_error, as word sequences
RetryTokens == {<<"429">>, <<"quota">>, <<"rate", "limit">>, <<"resource", "exhausted">>}

\* a classifier that retries whatever the error
is_retryable_error_any(e) == TRUE

is_retryable_error(e) ==
    LET err_str == [i \in 1..Len(e) |-> lower_word(e[i])]
    IN  \E t \in RetryTokens : IsSubstr(t, err_str)

\* a policy that lets a fourth attempt happen
retry_again_one_more(e, k) == is_retryable_error(e) /\ k <= MaxAttempts

\* tenacity after failed attempt number k: retry predicate, then stop_after_attempt
retry_again(e, k) == is_retryable_error(e) /\ k < MaxAttempts

E_429   == <<"HTTP", "429">>
E_quota == <<"Quota", "exceeded">>
E_rate  == <<"Rate", "LIMIT">>
E_fatal == <<"limit", "rate", "invalid", "key">>

Errors == {E_429, E_quota, E_rate, E_fatal}

\* One element of the parsed JSON. obj: it is a JSON object; the other fields
\* say how the object gives a key: "ok" (a value of the expected type),
\* "null", "absent", "str" (a non-numeric string where a number is expected).
Item(o, amt, dt, vn, pay, od) ==
    [obj |-> o, total_amount |-> amt, date |-> dt, vendor |-> vn,
     payment_clues |-> pay, ocr_has_date |-> od]

GoodItem == Item(TRUE, "ok", "ok", "ok", "ok", TRUE)
NonObj   == Item(FALSE, "absent", "absent", "absent", "absent", FALSE)

Items ==
    { GoodItem, NonObj,
      Item(TRUE, "null", "ok", "ok", "ok", TRUE),
      Item(TRUE, "str", "ok", "ok", "ok", TRUE),
      Item(TRUE, "absent", "absent", "absent", "absent", FALSE),
      Item(TRUE, "ok", "null", "ok", "ok", FALSE),
      Item(TRUE, "ok", "null", "ok", "ok", TRUE),
      Item(TRUE, "ok", "ok", "null", "ok", TRUE),
      Item(TRUE, "ok", "ok", "ok", "null", TRUE) }

MaxItems == 2

\* JSON documents: an array of elements, or one bare value (object or scalar)
JsonList(its) == [t |-> "list", items |-> its, elem |-> NonObj]
JsonBare(it)  == [t |-> "bare", items |-> <<>>, elem |-> it]

JsonValues ==
    {JsonList(its) : its \in UNION {[1..n -> Items] : n \in 0..MaxItems}}
        \cup {JsonBare(it) : it \in Items}

\* Lines of a response text: a code-fence line, a line holding a JSON
\* document, or a line of prose.
FenceLine   == [kind |-> "fence", val |-> JsonBare(NonObj)]
ProseLine   == [kind |-> "prose", val |-> JsonBare(NonObj)]
JsonLine(v) == [kind |-> "json", val |-> v]

Responses ==
    {<<JsonLine(v)>> : v \in JsonValues}
        \cup {<<FenceLine, JsonLine(v), FenceLine>> : v \in JsonValues}
        \cup {<<ProseLine, FenceLine, JsonLine(JsonList(<<GoodItem>>)), FenceLine>>,
              <<ProseLine>>, <<>>}

\* a parser that hands the text to json.loads with its code-fence lines
parse_response_text_unfenced(text) ==
    IF Len(text) = 1 /\ text[1].kind = "json"
    THEN IF text[1].val.t = "list" THEN text[1].val.items ELSE <<text[1].val.elem>>
    ELSE <<>>

\* _parse_response_text: json.loads succeeds when exactly one JSON document is left
parse_response_text(text) ==
    LET notfence(l) == l.kind # "fence"
        body == IF text # <<>> /\ text[1].kind = "fence" THEN SelectSeq(text, notfence) ELSE text
    IN  IF Len(body) = 1 /\ body[1].kind = "json"
        THEN IF body[1].val.t = "list" THEN body[1].val.items ELSE <<body[1].val.elem>>
        ELSE <<>>

\* the exception the conversion loop raises on an element, "none" if it builds a record
item_error(it) ==
    CASE ~it.obj                                -> "AttributeError"   \* item.get (578)
      [] it.obj /\ it.payment_clues = "null"    -> "AttributeError"   \* clue.lower() (423)
      [] it.obj /\ it.payment_clues # "null" /\ it.total_amount = "null"
                                                -> "TypeError"        \* int(None) (669)
      [] it.obj /\ it.payment_clues # "null" /\ it.total_amount = "str"
                                                -> "ValueError"       \* int("abc") (669)
      [] it.obj /\ it.payment_clues # "null" /\ it.total_amount \in {"ok", "absent"}
            /\ (it.vendor = "null" \/ (it.date = "null" /\ ~it.ocr_has_date))
                                                -> "ValidationError"  \* ReceiptRecord (665)
      [] OTHER                                  -> "none"

\* the normaliser results of an element that converts
item_fields(it) ==
    LET d == IF it.ocr_has_date \/ it.date = "ok" THEN "2026/10/01" ELSE ""
    IN  NormOut(d, d = "",
                IF it.vendor = "ok" THEN V_seven ELSE V_q,
                <<>>,
                IF it.total_amount = "ok" THEN 1000 ELSE 0,
                "10%",
                IF it.payment_clues = "ok" THEN "cash" ELSE PayUnknown,
                "", FALSE)

NoneText == [is_none |-> TRUE, lines |-> <<>>]
Text(ls) == [is_none |-> FALSE, lines |-> ls]

OkOutcome(ls) == [ok |-> TRUE, err |-> <<>>, text |-> ls]
ErrOutcome(e) == [ok |-> FALSE, err |-> e, text |-> <<>>]

Outcomes == {OkOutcome(ls) : ls \in Responses} \cup {ErrOutcome(e) : e \in Errors}

MergeIdle ==
    /\ records = <<>>
    /\ groups = <<>>
    /\ merged_results = <<>>
    /\ mphase = "idle"

InitSingle ==
    /\ gemini_key \in BOOLEAN
    /\ openai_key \in BOOLEAN
    /\ spc = "start"
    /\ g_calls = <<>>
    /\ o_calls = <<>>
    /\ raw_text = NoneText
    /\ backend_used = "None"
    /\ s_result = <<>>
    /\ MergeIdle
    /\ SplitIdle
    /\ FieldIdle

\* lines 541-546: read the primary key
SStart ==
    /\ spc = "start"
    /\ spc' = IF gemini_key THEN "gemini" ELSE "check"
    /\ UNCHANGED <<gemini_key, openai_key, g_calls, o_calls, raw_text, backend_used, s_result>>
    /\ UNCHANGED mergeVars
    /\ UNCHANGED splitVars
    /\ UNCHANGED fieldVars

\* one invocation of _call_gemini_impl under RETRY_DECORATOR (lines 547-553)
CallGemini ==
    /\ spc = "gemini"
    /\ \E out \in Outcomes :
          /\ g_calls' = Append(g_calls, out)
          /\ IF out.ok
             THEN /\ raw_text' = Text(out.text)
                  /\ backend_used' = "Gemini"
                  /\ spc' = "check"
             ELSE IF retry_again(out.err, Len(g_calls) + 1)
             THEN UNCHANGED <<raw_text, backend_used, spc>>
             ELSE /\ raw_text' = NoneText
                  /\ spc' = "check"
                  /\ UNCHANGED backend_used
    /\ UNCHANGED <<gemini_key, openai_key, o_calls, s_result>>
    /\ UNCHANGED mergeVars
    /\ UNCHANGED splitVars
    /\ UNCHANGED fieldVars

\* lines 556-568: fall back when there is no text; no key left: return []
CheckFallback ==
    /\ spc = "check"
    /\ IF ~raw_text.is_none THEN spc' = "parse" /\ UNCHANGED s_result
       ELSE IF openai_key THEN spc' = "openai" /\ UNCHANGED s_result
       ELSE spc' = "returned" /\ s_result' = <<>>
    /\ UNCHANGED <<gemini_key, openai_key, g_calls, o_calls, raw_text, backend_used>>
    /\ UNCHANGED mergeVars
    /\ UNCHANGED splitVars
    /\ UNCHANGED fieldVars

\* what the except clause of the secondary backend leaves: position and result
openai_failed_reraise == [spc |-> "raised", s_result |-> <<>>]

\* lines 563-565: the failure is logged and [] is returned
openai_failed == [spc |-> "returned", s_result |-> <<>>]

\* one invocation of _call_openai_impl under RETRY_DECORATOR (lines 559-565)
CallOpenAI ==
    /\ spc = "openai"
    /\ \E out \in Outcomes :
          /\ o_calls' = Append(o_calls, out)
          /\ IF out.ok
             THEN /\ raw_text' = Text(out.text)
                  /\ backend_used' = "gpt-4o"
                  /\ spc' = "parse"
                  /\ UNCHANGED s_result
             ELSE IF retry_again(out.err, Len(o_calls) + 1)
             THEN UNCHANGED <<raw_text, backend_used, spc, s_result>>
             ELSE /\ spc' = openai_failed.spc
                  /\ s_result' = openai_failed.s_result
                  /\ UNCHANGED <<raw_text, backend_used>>
    /\ UNCHANGED <<gemini_key, openai_key, g_calls>>
    /\ UNCHANGED mergeVars
    /\ UNCHANGED splitVars
    /\ UNCHANGED fieldVars

\* lines 570-684: parse, then convert every element; an exception leaves the
\* call, and analyze_receipt_image (lines 531-536) has no handler for it
ParseAndConvert ==
    /\ spc = "parse"
    /\ LET extracted == parse_response_text(raw_text.lines)
       IN  IF extracted = <<>>
           THEN spc' = "returned" /\ s_result' = <<>>
           ELSE IF \E i \in 1..Len(extracted) : item_error(extracted[i]) # "none"
           THEN spc' = "raised" /\ UNCHANGED s_result
           ELSE /\ spc' = "returned"
                /\ s_result' = [i \in 1..Len(extracted) |->
                                    make_record(item_fields(extracted[i]), i - 1)]
    /\ UNCHANGED <<gemini_key, openai_key, g_calls, o_calls, raw_text, backend_used>>
    /\ UNCHANGED mergeVars
    /\ UNCHANGED splitVars
    /\ UNCHANGED fieldVars

NextSingle == SStart \/ CallGemini \/ CheckFallback \/ CallOpenAI \/ ParseAndConvert

SpecSingle == InitSingle /\ [][NextSingle]_vars

-----------------------------------------------------------------------------
(* Detailed scan: _analyze_receipt_image_split *)

max_workers == 3

\* the receipts on the image: A is seen by the whole pass and by tiles 0, 1
\* and 4, B by tiles 2 and 3
ReceiptA == make_record(NormOut("2026/10/01", FALSE, V_seven, <<>>, 1000, "10%", "cash", T1, FALSE), 0)
ReceiptA_tile == make_record(NormOut("2026/10/01", FALSE, V_sevenj, <<>>, 1000, "10%", PayUnknown, "", FALSE), 0)
ReceiptB_tile == make_record(NormOut("2026/10/01", FALSE, V_law, <<>>, 2000, "10%", "cash", "", FALSE), 0)

\* results of one _analyze_single_image call: a record list, or an exception
Returned(rs) == [ok |-> TRUE, recs |-> rs]
Raised       == [ok |-> FALSE, recs |-> <<>>]

WholeOutcomes == {Raised, Returned(<<>>), Returned(<<ReceiptA>>)}

TileOutcomes(i) ==
    {Raised, Returned(<<>>),
     Returned(<<IF i \in {2, 3} THEN ReceiptB_tile ELSE ReceiptA_tile>>)}

InitSplit ==
    /\ dpc = "whole"
    /\ all_records = <<>>
    /\ whole_out = <<>>
    /\ files = {}
    /\ task = [i \in Tiles |-> NoTask]
    /\ collected = {}
    /\ MergeIdle
    /\ SingleIdle
    /\ FieldIdle

\* line 695: the whole-image pass, in the calling thread
WholePass ==
    /\ dpc = "whole"
    /\ \E out \in WholeOutcomes :
          IF out.ok
          THEN /\ all_records' = out.recs
               /\ whole_out' = out.recs
               /\ dpc' = "tiling"
          ELSE /\ dpc' = "raised"
               /\ UNCHANGED <<all_records, whole_out>>
    /\ UNCHANGED <<files, task, collected>>
    /\ UNCHANGED mergeVars
    /\ UNCHANGED singleVars
    /\ UNCHANGED fieldVars

\* line 698: _split_image writes the five tile files
SplitImage ==
    /\ dpc = "tiling"
    /\ files' = Tiles
    /\ dpc' = "submit"
    /\ UNCHANGED <<all_records, whole_out, task, collected>>
    /\ UNCHANGED mergeVars
    /\ UNCHANGED singleVars
    /\ UNCHANGED fieldVars

\* lines 702-705: executor.submit for the next tile, in list order
Submit ==
    /\ dpc = "submit"
    /\ LET i == CHOOSE j \in Tiles :
                   task[j].st = "none" /\ \A l \in Tiles : l < j => task[l].st # "none"
       IN  /\ task' = [task EXCEPT ![i].st = "queued"]
           /\ dpc' = IF i = 4 THEN "collect" ELSE "submit"
    /\ UNCHANGED <<all_records, whole_out, files, collected>>
    /\ UNCHANGED mergeVars
    /\ UNCHANGED singleVars
    /\ UNCHANGED fieldVars

\* a pool that starts every submitted task at once
pool_has_free_worker_unbounded(t) == TRUE

\* a worker thread takes the oldest queued task
pool_has_free_worker(t) == Cardinality({j \in Tiles : t[j].st = "running"}) < max_workers

WorkerStart(i) ==
    /\ task[i].st = "queued"
    /\ \A l \in Tiles : l < i => task[l].st # "queued"
    /\ pool_has_free_worker(task)
    /\ task' = [task EXCEPT ![i].st = "running"]
    /\ UNCHANGED <<dpc, all_records, whole_out, files, collected>>
    /\ UNCHANGED mergeVars
    /\ UNCHANGED singleVars
    /\ UNCHANGED fieldVars

\* the tile's _analyze_single_image returns or raises inside the worker
TaskFinish(i) ==
    /\ task[i].st = "running"
    /\ \E out \in TileOutcomes(i) :
          task' = [task EXCEPT ![i] = [st |-> "done", ok |-> out.ok, recs |-> out.recs]]
    /\ UNCHANGED <<dpc, all_records, whole_out, files, collected>>
    /\ UNCHANGED mergeVars
    /\ UNCHANGED singleVars
    /\ UNCHANGED fieldVars

\* a collection that keeps only the last tile's records
extend_overwrite(all, recs) == recs

\* line 711: all_records.extend(records)
extend(all, recs) == all \o recs

\* a clean-up placed in the try block instead of the finally block
files_after_only_on_success(fs, i, ok) == IF ok THEN fs \ {i} ELSE fs

\* lines 715-718: the finally block removes the tile's file
files_after(fs, i, ok) == fs \ {i}

\* lines 707-718: the loop body for a future as_completed yields
Collect(i) ==
    /\ dpc = "collect"
    /\ task[i].st = "done"
    /\ i \notin collected
    /\ all_records' = IF task[i].ok THEN extend(all_records, task[i].recs) ELSE all_records
    /\ files' = files_after(files, i, task[i].ok)
    /\ collected' = collected \cup {i}
    /\ UNCHANGED <<dpc, whole_out, task>>
    /\ UNCHANGED mergeVars
    /\ UNCHANGED singleVars
    /\ UNCHANGED fieldVars

\* a loop that stops at the first completed future, in a pool that does not wait
loop_done_first_completed(c, t) == c # {}

\* as_completed is exhausted and the with block has joined the workers
loop_done(c, t) == c = Tiles /\ \A j \in Tiles : t[j].st = "done"

ExitPool ==
    /\ dpc = "collect"
    /\ loop_done(collected, task)
    /\ dpc' = "merge"
    /\ UNCHANGED <<all_records, whole_out, files, task, collected>>
    /\ UNCHANGED mergeVars
    /\ UNCHANGED singleVars
    /\ UNCHANGED fieldVars

\* line 721: return _merge_records(all_records)
MergeAndReturn ==
    /\ dpc = "merge"
    /\ Merge(all_records)
    /\ dpc' = "returned"
    /\ UNCHANGED <<all_records, whole_out, files, task, collected>>
    /\ UNCHANGED singleVars
    /\ UNCHANGED fieldVars

NextSplit ==
    \/ WholePass
    \/ SplitImage
    \/ Submit
    \/ \E i \in Tiles : WorkerStart(i)
    \/ \E i \in Tiles : TaskFinish(i)
    \/ \E i \in Tiles : Collect(i)
    \/ ExitPool
    \/ MergeAndReturn

SpecSplit == InitSplit /\ [][NextSplit]_vars

-----------------------------------------------------------------------------
(* Field normalisers: _normalize_invoice_candidate *)

\* Characters are one-element strings; a character outside ASCII carries a
\* name: FW_x is the full-width form of x, MINUS is U+2212, CHOON the katakana
\* long-vowel mark, IDEO_SP the ideographic space.
DigitChars   == <<"0", "1", "2", "3", "4", "5", "6", "7", "8", "9">>
FwDigitChars == <<"FW_0", "FW_1", "FW_2", "FW_3", "FW_4", "FW_5", "FW_6", "FW_7", "FW_8", "FW_9">>

\* unicodedata.normalize("NFKC", c) for the characters used here
zen_to_han(c) ==
    IF \E n \in 1..10 : FwDigitChars[n] = c
    THEN DigitChars[CHOOSE n \in 1..10 : FwDigitChars[n] = c]
    ELSE CASE c = "FW_T"    -> "T"
           [] c = "FW_-"    -> "-"
           [] c = "IDEO_SP" -> " "
           [] OTHER         -> c

\* the dash class of line 175 and the space class of line 177, after folding
DashChars  == {"-", "MINUS", "CHOON"}
SpaceChars == {" ", "NL"}

InvoiceDigits == 13

EmptyInvoice == [norm |-> <<>>, low |-> FALSE]

\* a length check that drops the first of 14 digits whatever it is
by_digit_count_trim_any(digits) ==
    IF Len(digits) = InvoiceDigits
    THEN [norm |-> <<"T">> \o digits, low |-> FALSE]
    ELSE IF Len(digits) = InvoiceDigits - 1
    THEN [norm |-> <<"T", "0">> \o digits, low |-> TRUE]
    ELSE IF Len(digits) = InvoiceDigits + 1
    THEN [norm |-> <<"T">> \o Tail(digits), low |-> TRUE]
    ELSE EmptyInvoice

\* lines 185-197: the result by the number of digits
by_digit_count(digits) ==
    IF Len(digits) = InvoiceDigits
    THEN [norm |-> <<"T">> \o digits, low |-> FALSE]
    ELSE IF Len(digits) = InvoiceDigits - 1
    THEN [norm |-> <<"T", "0">> \o digits, low |-> TRUE]
    ELSE IF Len(digits) = InvoiceDigits + 1 /\ Head(digits) = "0"
    THEN [norm |-> <<"T">> \o Tail(digits), low |-> TRUE]
    ELSE EmptyInvoice

\* lines 173-177: fold, then remove the dashes and the white space
fold_and_strip(raw) ==
    LET s1 == [i \in 1..Len(raw) |-> zen_to_han(raw[i])]
        nodash(c) == c \notin DashChars
        nospace(c) == c \notin SpaceChars
    IN  SelectSeq(SelectSeq(s1, nodash), nospace)

\* re.sub(r"[^0-9]", "", s)
ascii_digits(s) ==
    LET isdigit(c) == c \in Range(DigitChars)
    IN  SelectSeq(s, isdigit)

normalize_invoice_candidate(raw) ==
    IF raw = <<>> THEN EmptyInvoice
    ELSE LET s == fold_and_strip(raw)
         IN  IF s = <<>> \/ Head(s) # "T" THEN EmptyInvoice
             ELSE by_digit_count(ascii_digits(Tail(s)))

\* Bounded inputs: an optional leading space, a head character, and a run of
\* d digits (the first is f, the k-th is k mod 10) in half- or full-width
\* form with a separator after the 3rd, 6th and 9th digit.
MaxDigits == 15

Heads == {<<"T">>, <<"FW_T">>, <<"t">>, <<"X">>, <<>>}
Leads == {<<>>, <<" ">>}
Seps  == {<<>>, <<"-">>, <<"MINUS">>, <<"CHOON">>, <<"FW_-">>, <<" ">>, <<"IDEO_SP">>, <<".">>}

digit_at(k, f, fw) ==
    LET n == IF k = 1 THEN f ELSE k % 10
    IN  IF fw THEN FwDigitChars[n + 1] ELSE DigitChars[n + 1]

RECURSIVE digit_run(_, _, _, _, _)
digit_run(k, d, f, sep, fw) ==
    IF k > d THEN <<>>
    ELSE <<digit_at(k, f, fw)>> \o (IF k \in {3, 6, 9} /\ k < d THEN sep ELSE <<>>)
             \o digit_run(k + 1, d, f, sep, fw)

RawInvoice(lead, head, d, f, sep, fw) ==
    [raw |-> lead \o head \o digit_run(1, d, f, sep, fw),
     lead |-> lead, head |-> head, d |-> d, f |-> f, sep |-> sep, fw |-> fw]

RawInvoices ==
    { RawInvoice(lead, head, d, f, sep, fw) :
        lead \in Leads, head \in Heads, d \in (InvoiceDigits - 2)..MaxDigits,
        f \in {0, 1}, sep \in Seps, fw \in BOOLEAN }
      \cup {[raw |-> <<>>, lead |-> <<>>, head |-> <<>>, d |-> 0, f |-> 0, sep |-> <<>>, fw |-> FALSE]}

InitNormInvoice ==
    /\ xpc = "call"
    /\ x_in \in RawInvoices
    /\ x_out = <<>>
    /\ MergeIdle
    /\ SingleIdle
    /\ SplitIdle

NormalizeInvoice ==
    /\ xpc = "call"
    /\ x_out' = normalize_invoice_candidate(x_in.raw)
    /\ xpc' = "done"
    /\ UNCHANGED x_in
    /\ UNCHANGED mergeVars
    /\ UNCHANGED singleVars
    /\ UNCHANGED splitVars

NextNormInvoice == NormalizeInvoice

SpecNormInvoice == InitNormInvoice /\ [][NextNormInvoice]_vars

-----------------------------------------------------------------------------
(* Field normalisers: _extract_invoice_no_from_text *)

\* _INVOICE_LABEL_KEYWORDS, in list order; a kanji or kana is written by its reading
KW_touroku  == <<"tou", "roku", "ban", "gou">>
KW_hakkou   == <<"teki", "kaku", "sei", "kyuu", "sho", "hatsu", "kou", "ji", "gyou", "sha">>
KW_tekikaku == <<"teki", "kaku", "sei", "kyuu", "sho">>
KW_invoice  == <<"ka_i", "ka_n", "ka_bo", "ka_i", "ka_su">>

INVOICE_LABEL_KEYWORDS == <<KW_touroku, KW_hakkou, KW_tekikaku, KW_invoice>>

Window == 60

Min(a, b) == IF a < b THEN a ELSE b
Max(a, b) == IF a > b THEN a ELSE b

\* start positions (from 1) of the occurrences of kw in text
find_all(kw, text) ==
    {q \in 1..(Len(text) - Len(kw) + 1) : SubSeq(text, q, q + Len(kw) - 1) = kw}

\* lines 235-237: the window around the occurrence of kw that starts at q
window_at(text, kw, q) ==
    SubSeq(text, Max(0, (q - 1) - Window) + 1, Min(Len(text), (q - 1) + Len(kw) + Window))

\* lines 232-238: the windows, keyword by keyword, occurrences in text order
RECURSIVE label_windows_from(_, _)
label_windows_from(text, n) ==
    IF n > Len(INVOICE_LABEL_KEYWORDS) THEN <<>>
    ELSE LET kw == INVOICE_LABEL_KEYWORDS[n]
             ps == SortedSeq(find_all(kw, text))
         IN  [k \in 1..Len(ps) |-> window_at(text, kw, ps[k])] \o label_windows_from(text, n + 1)

label_windows(text) == label_windows_from(text, 1)

\* the character class of _T_NUMBER_PATTERN after the T
PatternChars ==
    Range(DigitChars) \cup Range(FwDigitChars)
        \cup {"-", "CHOON", "FW_-", "MINUS", " ", "NL", "IDEO_SP"}

TChars == {"T", "FW_T"}

\* number of consecutive characters of text, from position q on, that are in cls
RECURSIVE run_len(_, _, _)
run_len(text, q, cls) ==
    IF q > Len(text) \/ text[q] \notin cls THEN 0 ELSE 1 + run_len(text, q + 1, cls)

\* re.findall(_T_NUMBER_PATTERN, text): greedy, left to right, not overlapping
RECURSIVE findall_t_number(_, _)
findall_t_number(text, q) ==
    IF q > Len(text) THEN <<>>
    ELSE IF text[q] \in TChars /\ run_len(text, q + 1, PatternChars) >= 10
    THEN LET n == run_len(text, q + 1, PatternChars)
         IN  <<SubSeq(text, q, q + n)>> \o findall_t_number(text, q + n + 1)
    ELSE findall_t_number(text, q + 1)

\* the first candidate that normalises (lines 244-249 and 284-288)
RECURSIVE first_normalised(_)
first_normalised(cands) ==
    IF cands = <<>> THEN EmptyInvoice
    ELSE LET r == normalize_invoice_candidate(Head(cands))
         IN  IF r.norm # <<>> THEN r ELSE first_normalised(Tail(cands))

\* re.findall(r"[T FW_T t]|[0-9 FW_0-FW_9]+", window)
RECURSIVE tokens_of(_, _)
tokens_of(text, q) ==
    LET digs == Range(DigitChars) \cup Range(FwDigitChars)
    IN  IF q > Len(text) THEN <<>>
        ELSE IF text[q] \in {"T", "FW_T", "t"}
        THEN <<<<text[q]>>>> \o tokens_of(text, q + 1)
        ELSE IF text[q] \in digs
        THEN LET n == run_len(text, q, digs)
             IN  <<SubSeq(text, q, q + n - 1)>> \o tokens_of(text, q + n)
        ELSE tokens_of(text, q + 1)

\* lines 265-278: extend the combination that starts at token i by token j
RECURSIVE merge_from(_, _, _, _, _)
merge_from(toks, i, j, combined, digit_count) ==
    IF j > Min(Len(toks), i + 7) THEN EmptyInvoice
    ELSE LET c2 == combined \o toks[j]
             d2 == digit_count + Len(ascii_digits(toks[j]))
             r  == normalize_invoice_candidate(c2)
         IN  IF 12 <= d2 /\ d2 <= 14 /\ r.norm # <<>>
             THEN r
             ELSE IF d2 > 14 THEN EmptyInvoice
             ELSE merge_from(toks, i, j + 1, c2, d2)

\* lines 254-278: the token-merge fallback of one window
RECURSIVE token_merge(_, _)
token_merge(toks, i) ==
    IF i > Len(toks) THEN EmptyInvoice
    ELSE IF Head(toks[i]) \notin {"T", "FW_T", "t"} THEN token_merge(toks, i + 1)
    ELSE LET r == merge_from(toks, i, i + 1, toks[i], Len(ascii_digits(toks[i])))
         IN  IF r.norm # <<>> THEN r ELSE token_merge(toks, i + 1)

pattern_in(window) == first_normalised(findall_t_number(window, 1))

merge_in(window) == token_merge(tokens_of(window, 1), 1)

Found(r, lw, src) == [norm |-> r.norm, low |-> lw, src |-> src]

NotFound == [norm |-> <<>>, low |-> FALSE, src |-> "none"]

\* a confidence of the fallback strategies that follows the digit count
fallback_low_by_digits(norm_low) == norm_low

\* lines 274 and 288: token merge and whole-text search are always low confidence
fallback_low(norm_low) == TRUE

\* a search that tries the pattern in every window before any token merge
windows_pass_pattern_first(ws, k) ==
    LET pats == {l \in 1..Len(ws) : pattern_in(ws[l]).norm # <<>>}
        mrgs == {l \in 1..Len(ws) : merge_in(ws[l]).norm # <<>>}
        firstp == CHOOSE l \in pats : \A l2 \in pats : l <= l2
        firstm == CHOOSE l \in mrgs : \A l2 \in mrgs : l <= l2
    IN  IF pats # {} THEN Found(pattern_in(ws[firstp]), pattern_in(ws[firstp]).low, "label")
        ELSE IF mrgs # {} THEN Found(merge_in(ws[firstm]), fallback_low(merge_in(ws[firstm]).low), "merge")
        ELSE NotFound

\* lines 242-278: window by window, the pattern and then the token merge
RECURSIVE windows_pass(_, _)
windows_pass(ws, k) ==
    IF k > Len(ws) THEN NotFound
    ELSE LET r == pattern_in(ws[k])
         IN  IF r.norm # <<>> THEN Found(r, r.low, "label")
             ELSE LET m == merge_in(ws[k])
                  IN  IF m.norm # <<>> THEN Found(m, fallback_low(m.low), "merge")
                      ELSE windows_pass(ws, k + 1)

\* src is the strategy the debug text names
extract_invoice_no_from_text(ocr_text, ai_raw) ==
    LET h == normalize_invoice_candidate(ai_raw)
    IN  IF ai_raw # <<>> /\ h.norm # <<>> THEN Found(h, h.low, "hint")
        ELSE IF ocr_text = <<>> THEN NotFound
        ELSE LET w == windows_pass(label_windows(ocr_text), 1)
             IN  IF w.norm # <<>> THEN w
                 ELSE LET a == pattern_in(ocr_text)
                      IN  IF a.norm # <<>> THEN Found(a, fallback_low(a.low), "whole")
                          ELSE NotFound

\* f"T{digits}" as the string the record stores
RECURSIVE invoice_text(_)
invoice_text(norm) == IF norm = <<>> THEN "" ELSE Head(norm) \o invoice_text(Tail(norm))

\* Bounded inputs: two segments, each an optional label followed by a
\* T-number fragment, separated by a gap of filler characters; the digits of
\* the first segment start with 1, those of the second with 2, the hint's with 3.
Gaps == {0, 30, 70}

Labels == {<<>>, KW_touroku, KW_invoice}

Fragments == {"none", "p13", "p12", "p14", "sp13", "m13", "m12"}

fragment(kind, f) ==
    CASE kind = "p13"  -> <<"T">> \o digit_run(1, 13, f, <<>>, FALSE)
      [] kind = "p12"  -> <<"T">> \o digit_run(1, 12, f, <<>>, FALSE)
      [] kind = "p14"  -> <<"T", "0">> \o digit_run(1, 13, f, <<>>, FALSE)
      [] kind = "sp13" -> <<"T", " ">> \o digit_run(1, 13, f, <<" ">>, FALSE)
      [] kind = "m13"  -> <<"T", "_">> \o digit_run(1, 13, f, <<"_">>, FALSE)
      [] kind = "m12"  -> <<"T", "_">> \o digit_run(1, 12, f, <<"_">>, FALSE)
      [] OTHER -> <<>>

segment(label, kind, f) == label \o <<" ">> \o fragment(kind, f) \o <<".">>

Hints == {<<>>, fragment("p13", 3), fragment("p12", 3), <<"T", "3", "4">>}

OcrTexts ==
    { segment(la, ka, 1) \o [i \in 1..g |-> "x"] \o segment(lb, kb, 2) :
        la \in Labels, ka \in Fragments, lb \in Labels, kb \in Fragments, g \in Gaps }
      \cup {<<>>}

InitExtractInvoice ==
    /\ xpc = "call"
    /\ x_in \in [ocr_text : OcrTexts, ai_raw : Hints]
    /\ x_out = <<>>
    /\ MergeIdle
    /\ SingleIdle
    /\ SplitIdle

\* line 583, and lines 620-628 and 665-682 for the invoice fields of the draft
ExtractInvoice ==
    /\ xpc = "call"
    /\ LET r == extract_invoice_no_from_text(x_in.ocr_text, x_in.ai_raw)
       IN  x_out' = [norm |-> r.norm, low |-> r.low, src |-> r.src,
                     draft |-> make_record(NormOut("2026/10/01", FALSE, V_seven, <<>>, 1000,
                                                   "10%", "cash", invoice_text(r.norm), r.low), 0)]
    /\ xpc' = "done"
    /\ UNCHANGED x_in
    /\ UNCHANGED mergeVars
    /\ UNCHANGED singleVars
    /\ UNCHANGED splitVars

NextExtractInvoice == ExtractInvoice

SpecExtractInvoice == InitExtractInvoice /\ [][NextExtractInvoice]_vars

-----------------------------------------------------------------------------
(* Field normalisers: _extract_best_date *)

CURRENT_YEAR == 2026

\* _DATE_LABEL_KEYWORDS, a kanji written by its reading
DATE_LABEL_KEYWORDS ==
    << <<"nichi", "tsuke">>, <<"ri", "you", "nichi">>, <<"jou", "sha", "nichi">>,
       <<"hatsu", "kou", "nichi">>, <<"ryou", "shuu", "nichi">>, <<"nen", "gatsu", "nichi">> >>

\* what \d matches: the ASCII and the full-width digits
Digs == Range(DigitChars) \cup Range(FwDigitChars)

digit_value(c) ==
    IF \E n \in 1..10 : DigitChars[n] = c
    THEN (CHOOSE n \in 1..10 : DigitChars[n] = c) - 1
    ELSE (CHOOSE n \in 1..10 : FwDigitChars[n] = c) - 1

\* int(s) for a string of digits
RECURSIVE to_int(_)
to_int(ds) == IF ds = <<>> THEN 0 ELSE 10 * to_int(SubSeq(ds, 1, Len(ds) - 1)) + digit_value(ds[Len(ds)])

CharAt(text, q) == IF q >= 1 /\ q <= Len(text) THEN text[q] ELSE "EOT"

\* (\d{1,2}) followed by one of terms: the number of digits taken, 0 for no match
digits_before(text, q, terms) ==
    LET n == run_len(text, q, Digs)
    IN  IF n \in {1, 2} /\ CharAt(text, q + n) \in terms THEN n ELSE 0

\* a final (\d{1,2}) with nothing required after it
digits_last(text, q) == Min(run_len(text, q, Digs), 2)

NoMatch == [ok |-> FALSE, year |-> 0, month |-> 0, day |-> 0, pos |-> 0, end |-> 0]

\* the match object of a pattern found at q: month of mn digits at mq, day of
\* dn digits after one separator, tail characters after the day
DateMatch(text, q, y, mq, mn, dn, tail) ==
    IF mn > 0 /\ dn > 0
    THEN [ok |-> TRUE, year |-> y, month |-> to_int(SubSeq(text, mq, mq + mn - 1)),
          day |-> to_int(SubSeq(text, mq + mn + 1, mq + mn + dn)),
          pos |-> q - 1, end |-> mq + mn + dn + tail]
    ELSE NoMatch

\* (\d{1,2})[/\-](\d{1,2}) at mq, for the year y of a match that began at q
month_day_slash(text, q, y, mq, mn) ==
    DateMatch(text, q, y, mq, mn, digits_last(text, mq + mn + 1), 0)

\* (\d{1,2}) gatsu (\d{1,2}) nichi at mq, for the year y of a match that began at q
month_day_kanji(text, q, y, mq, mn) ==
    DateMatch(text, q, y, mq, mn, digits_before(text, mq + mn + 1, {"nichi"}), 1)

\* (\d{4})[/\-](\d{1,2})[/\-](\d{1,2}) at position q
match_slash(text, q) ==
    IF /\ \A k \in 0..3 : CharAt(text, q + k) \in Digs
       /\ CharAt(text, q + 4) \in {"/", "-"}
    THEN month_day_slash(text, q, to_int(SubSeq(text, q, q + 3)), q + 5,
                         digits_before(text, q + 5, {"/", "-"}))
    ELSE NoMatch

\* (\d{4}) nen (\d{1,2}) gatsu (\d{1,2}) nichi at position q
match_kanji(text, q) ==
    IF /\ \A k \in 0..3 : CharAt(text, q + k) \in Digs
       /\ CharAt(text, q + 4) = "nen"
    THEN month_day_kanji(text, q, to_int(SubSeq(text, q, q + 3)), q + 5,
                         digits_before(text, q + 5, {"gatsu"}))
    ELSE NoMatch

\* the part of the era patterns after "(\d{1,2}) nen": en era digits at eq
reiwa_month_day(text, q, mixed, eq, en) ==
    IF en = 0 THEN NoMatch
    ELSE IF mixed
         THEN IF CharAt(text, eq + en + 1) \in {"/", "-"}
              THEN month_day_slash(text, q, 2018 + to_int(SubSeq(text, eq, eq + en - 1)),
                                   eq + en + 2, digits_before(text, eq + en + 2, {"/", "-"}))
              ELSE NoMatch
         ELSE month_day_kanji(text, q, 2018 + to_int(SubSeq(text, eq, eq + en - 1)),
                              eq + en + 1, digits_before(text, eq + en + 1, {"gatsu"}))

\* the era digits after "rei wa \s*", which end at eq - 1
reiwa_year(text, q, mixed, eq) ==
    reiwa_month_day(text, q, mixed, eq, digits_before(text, eq, {"nen"}))

\* rei wa \s* (\d{1,2}) nen, then "M gatsu D nichi" or "/M/D", at position q
match_reiwa(text, q, mixed) ==
    IF CharAt(text, q) = "rei" /\ CharAt(text, q + 1) = "wa"
    THEN reiwa_year(text, q, mixed, q + 2 + run_len(text, q + 2, {" ", "NL", "IDEO_SP"}))
    ELSE NoMatch

\* date_patterns, in list order
match_pattern(n, text, q) ==
    CASE n = 1 -> match_slash(text, q)
      [] n = 2 -> match_kanji(text, q)
      [] n = 3 -> match_reiwa(text, q, FALSE)
      [] OTHER -> match_reiwa(text, q, TRUE)

\* re.finditer(pattern, ocr_text): left to right, not overlapping
RECURSIVE finditer_date(_, _, _)
finditer_date(n, text, q) ==
    IF q > Len(text) THEN <<>>
    ELSE IF match_pattern(n, text, q).ok
         THEN <<match_pattern(n, text, q)>>
                  \o finditer_date(n, text, match_pattern(n, text, q).end + 1)
         ELSE finditer_date(n, text, q + 1)

\* every match of every pattern, in the order the loops of lines 339-340 visit them
date_matches(text) ==
    finditer_date(1, text, 1) \o finditer_date(2, text, 1)
        \o finditer_date(3, text, 1) \o finditer_date(4, text, 1)

\* lines 332-335: m.end() of every label occurrence
label_positions(text) ==
    UNION { {(q - 1) + Len(DATE_LABEL_KEYWORDS[n]) : q \in find_all(DATE_LABEL_KEYWORDS[n], text)} :
              n \in 1..Len(DATE_LABEL_KEYWORDS) }

\* a label bonus for a date within 30 characters before or after a label end
near_label_either_side(pos, lps) == \E lp \in lps : -30 <= pos - lp /\ pos - lp <= 30

\* lines 360-363
near_label(pos, lps) == \E lp \in lps : 0 <= pos - lp /\ pos - lp <= 30

year_in_window(year) == CURRENT_YEAR - 2 <= year /\ year <= CURRENT_YEAR + 2

\* f"{year:04d}/{month:02d}/{day:02d}"
date_str(year, month, day) ==
    LET dg(n) == DigitChars[n + 1]
    IN  <<dg(year \div 1000), dg((year \div 100) % 10), dg((year \div 10) % 10), dg(year % 10), "/",
          dg(month \div 10), dg(month % 10), "/", dg(day \div 10), dg(day % 10)>>

\* lines 352-354: the range checks of a match
valid_date(m) ==
    /\ 1 <= m.month /\ m.month <= 12
    /\ 1 <= m.day /\ m.day <= 31
    /\ 2000 <= m.year /\ m.year <= 2099

\* lines 356-372: the candidate of a valid match, with its score
candidate(m, lps) ==
    [date  |-> date_str(m.year, m.month, m.day),
     score |-> (IF near_label(m.pos, lps) THEN 10 ELSE 0)
                 + (IF year_in_window(m.year) THEN 5 ELSE -5),
     year  |-> m.year,
     pos   |-> m.pos]

score_candidates(ms, lps) == [k \in 1..Len(ms) |-> candidate(ms[k], lps)]

\* lines 337-372: the validated and scored candidates
date_candidates(text) ==
    score_candidates(SelectSeq(date_matches(text), valid_date), label_positions(text))

\* lines 390-391: the stable sort by (-score, pos), then its first element
best_candidate(cs) ==
    LET before(a, b) == a.score > b.score \/ (a.score = b.score /\ a.pos < b.pos)
        k == CHOOSE k \in 1..Len(cs) :
                /\ \A l \in 1..Len(cs) : ~before(cs[l], cs[k])
                /\ \A l \in 1..(k - 1) : before(cs[k], cs[l])
    IN  cs[k]

\* lines 379-386: the year check of the AI value; a non-numeric year is let through
ai_needs_review(ai_date) ==
    LET cut == IF \E q \in 1..Len(ai_date) : ai_date[q] = "/"
               THEN (CHOOSE q \in 1..Len(ai_date) :
                        ai_date[q] = "/" /\ \A r \in 1..(q - 1) : ai_date[r] # "/") - 1
               ELSE Len(ai_date)
        head == SubSeq(ai_date, 1, cut)
    IN  /\ ai_date # <<>>
        /\ head # <<>> /\ \A q \in 1..Len(head) : head[q] \in Digs
        /\ ~year_in_window(to_int(head))

extract_best_date(ocr_text, ai_date) ==
    IF ocr_text = <<>>
    THEN [date |-> ai_date, needs_review |-> (ai_date = <<>>), src |-> "no_ocr", score |-> 0]
    ELSE LET cs == date_candidates(ocr_text)
         IN  IF cs = <<>>
             THEN [date |-> ai_date, needs_review |-> ai_needs_review(ai_date),
                   src |-> "ai", score |-> 0]
             ELSE LET best == best_candidate(cs)
                  IN  [date |-> best.date, needs_review |-> ~year_in_window(best.year),
                       src |-> "ocr", score |-> best.score]

\* Bounded inputs: two segments, each an optional label, a pad and a date in
\* one notation; the first segment's date is the 1st of October, the second's
\* the 15th of March written without leading zero.
MaxPad == 31

Year(y) == <<DigitChars[(y \div 1000) + 1], DigitChars[((y \div 100) % 10) + 1],
             DigitChars[((y \div 10) % 10) + 1], DigitChars[(y % 10) + 1]>>

FwYear(y) == [k \in 1..4 |-> FwDigitChars[digit_value(Year(y)[k]) + 1]]

date_text(form, y, mo, d) ==
    CASE form = "slash"    -> Year(y) \o <<"/">> \o mo \o <<"/">> \o d
      [] form = "dash"     -> Year(y) \o <<"-">> \o mo \o <<"-">> \o d
      [] form = "fw_slash" -> FwYear(y) \o <<"/">> \o mo \o <<"/">> \o d
      [] form = "kanji"    -> Year(y) \o <<"nen">> \o mo \o <<"gatsu">> \o d \o <<"nichi">>
      [] form = "reiwa"    -> <<"rei", "wa", DigitChars[(y - 2018) + 1], "nen">> \o mo
                                  \o <<"gatsu">> \o d \o <<"nichi">>
      [] form = "reiwa_sp" -> <<"rei", "wa", " ", DigitChars[(y - 2018) + 1], "nen">> \o mo
                                  \o <<"gatsu">> \o d \o <<"nichi">>
      [] form = "reiwa_mx" -> <<"rei", "wa", DigitChars[(y - 2018) + 1], "nen", "/">> \o mo
                                  \o <<"/">> \o d
      [] form = "month13"  -> Year(y) \o <<"/", "1", "3", "/">> \o d
      [] OTHER -> <<>>

DateForms ==
    { <<"slash", 2026>>, <<"slash", 2023>>, <<"slash", 2024>>, <<"slash", 2029>>,
      <<"slash", 1999>>, <<"dash", 2028>>, <<"fw_slash", 2026>>, <<"kanji", 2026>>,
      <<"reiwa", 2026>>, <<"reiwa_sp", 2023>>, <<"reiwa_mx", 2025>>, <<"month13", 2026>>,
      <<"none", 2026>> }

DateLabels == {<<>>, DATE_LABEL_KEYWORDS[1], DATE_LABEL_KEYWORDS[4]}

Pads == {0, MaxPad - 1, MaxPad}

date_segment(label, pad, f, mo, d) ==
    label \o [i \in 1..(IF label = <<>> THEN 0 ELSE pad) |-> "x"]
          \o date_text(f[1], f[2], mo, d) \o <<".">>

DateTexts ==
    { date_segment(la, pa, fa, <<"1", "0">>, <<"0", "1">>)
          \o date_segment(lb, pb, fb, <<"3">>, <<"1", "5">>) :
        la \in DateLabels, pa \in Pads, fa \in DateForms,
        lb \in {<<>>, DATE_LABEL_KEYWORDS[1]}, pb \in {0, MaxPad}, fb \in DateForms }
      \cup {<<>>}

AiDates == {<<>>, Year(2026) \o <<"/", "0", "5", "/", "0", "5">>,
            Year(2020) \o <<"/", "0", "1", "/", "0", "1">>, <<"?">>}

InitBestDate ==
    /\ xpc = "call"
    /\ x_in \in [ocr_text : DateTexts, ai_date : AiDates]
    /\ x_out = <<>>
    /\ MergeIdle
    /\ SingleIdle
    /\ SplitIdle

\* line 587
ExtractBestDate ==
    /\ xpc = "call"
    /\ x_out' = extract_best_date(x_in.ocr_text, x_in.ai_date)
    /\ xpc' = "done"
    /\ UNCHANGED x_in
    /\ UNCHANGED mergeVars
    /\ UNCHANGED singleVars
    /\ UNCHANGED splitVars

NextBestDate == ExtractBestDate

SpecBestDate == InitBestDate /\ [][NextBestDate]_vars

-----------------------------------------------------------------------------
(* Tile coordinates: _split_image and the box_2d conversion *)

\* _split_image's offset_info of the five crops of a w x h image
\* (off_y, off_x, crop_h, crop_w, orig_h, orig_w), lines 107-134
OffsetInfo(oy, ox, ch, cw, oh, ow) ==
    [off_y |-> oy, off_x |-> ox, crop_h |-> ch, crop_w |-> cw, orig_h |-> oh, orig_w |-> ow]

split_image(w, h) ==
    LET half_w   == w \div 2
        half_h   == h \div 2
        center_x == (w - half_w) \div 2
        center_y == (h - half_h) \div 2
    IN  << OffsetInfo(0, 0, half_h, half_w, h, w),
           OffsetInfo(0, half_w, half_h, w - half_w, h, w),
           OffsetInfo(half_h, 0, h - half_h, half_w, h, w),
           OffsetInfo(half_h, half_w, h - half_h, w - half_w, h, w),
           OffsetInfo(center_y, center_x, half_h, half_w, h, w) >>

\* a conversion that forgets the tile's offset
global_px_without_offset(off, local, crop) == local * crop

\* lines 642-650: off + (local / 1000) * crop, in thousandths of a pixel
global_px(off, local, crop) == off * 1000 + local * crop

\* lines 655-658: int((global / orig) * 1000). The quotient is computed in
\* binary floating point: when the exact value is a whole number the product
\* can land just below it, and int() then gives one less (below).
to_normalized(g, orig, below) ==
    IF g % orig = 0 /\ g > 0 /\ below THEN (g \div orig) - 1 ELSE g \div orig

NoBox == <<>>
NoOffset == <<>>

\* lines 631-663: region for box_2d = [ymin, xmin, ymax, xmax]; below[k] is
\* the floating-point outcome of coordinate k
convert_box(box, off, below) ==
    IF box = NoBox THEN <<>>
    ELSE IF off = NoOffset THEN box
    ELSE IF ~(off.orig_h > 0 /\ off.orig_w > 0) THEN <<>>
    ELSE << to_normalized(global_px(off.off_y, box[1], off.crop_h), off.orig_h, below[1]),
            to_normalized(global_px(off.off_x, box[2], off.crop_w), off.orig_w, below[2]),
            to_normalized(global_px(off.off_y, box[1], off.crop_h)
                              + (box[3] - box[1]) * off.crop_h, off.orig_h, below[3]),
            to_normalized(global_px(off.off_x, box[2], off.crop_w)
                              + (box[4] - box[2]) * off.crop_w, off.orig_w, below[4]) >>

\* Bounded inputs: the tiles of a MaxSide x 7 image, a 200 x 200 tile at
\* (50, 50) of a 400 x 400 image, a tile reaching outside its image, and the
\* whole-image call; boxes over a few coordinates, ordered or not.
MaxSide == 401

Coords == {0, 100, 200, 333, 999, 1000}

Boxes == {<<y1, x1, y2, x2>> : y1 \in Coords, x1 \in Coords, y2 \in Coords, x2 \in Coords}
            \cup {NoBox}

ExampleTile == OffsetInfo(50, 50, 200, 200, 400, 400)

OutsideTile == OffsetInfo(300, 300, 200, 200, 400, 400)

OffsetInfos == Range(split_image(7, MaxSide)) \cup {ExampleTile, OutsideTile, NoOffset}

InitConvertBox ==
    /\ xpc = "call"
    /\ x_in \in [box : Boxes, offset_info : OffsetInfos]
    /\ x_out = <<>>
    /\ MergeIdle
    /\ SingleIdle
    /\ SplitIdle

\* lines 631-663; equal coordinates go through the same floating-point value
ConvertBox ==
    /\ xpc = "call"
    /\ \E below \in [1..4 -> BOOLEAN] :
          /\ x_in.box # NoBox =>
                /\ x_in.box[3] = x_in.box[1] => below[3] = below[1]
                /\ x_in.box[4] = x_in.box[2] => below[4] = below[2]
          /\ x_out' = [region |-> convert_box(x_in.box, x_in.offset_info, below)]
    /\ xpc' = "done"
    /\ UNCHANGED x_in
    /\ UNCHANGED mergeVars
    /\ UNCHANGED singleVars
    /\ UNCHANGED splitVars

NextConvertBox == ConvertBox

SpecConvertBox == InitConvertBox /\ [][NextConvertBox]_vars

-----------------------------------------------------------------------------
(* Properties of the OCR gateway *)

Last(q) == q[Len(q)]

\* the error texts that carry a throttling or quota token
ThrottleErrors == {E_429, E_quota, E_rate}

Running(p) == p \in {"start", "gemini", "check", "openai", "parse"}

PrimaryDown ==
    \/ ~gemini_key
    \/ g_calls # <<>> /\ ~Last(g_calls).ok /\ spc # "gemini"

SecondaryDown ==
    \/ ~openai_key
    \/ o_calls # <<>> /\ ~Last(o_calls).ok /\ spc # "openai"

\* C4: when the primary backend is absent or has failed and the secondary is
\* absent or has failed too, the finished call has returned the empty list and
\* has raised nothing.
C4_BothDownReturnsEmpty ==
    (~Running(spc) /\ PrimaryDown /\ SecondaryDown) =>
        (spc = "returned" /\ s_result = <<>>)

\* both keys are set, the primary used up its three attempts and the
\* secondary failed on a fatal error
C4_Witness ==
    /\ spc = "returned"
    /\ gemini_key /\ openai_key
    /\ Len(g_calls) = 3 /\ ~Last(g_calls).ok
    /\ o_calls = <<ErrOutcome(E_fatal)>>

\* C5: the primary is called at most 3 times, every call but the last failed
\* with a throttling/quota error, a non-retryable failure ends the primary
\* attempts and leaves its text unset (fallback), and a primary that succeeds
\* (after two rate-limit errors, on its third call) is used without the
\* secondary being called.
C5_PrimaryRetryPolicy ==
    /\ Len(g_calls) <= 3
    /\ \A k \in 1..(Len(g_calls) - 1) :
          ~g_calls[k].ok /\ g_calls[k].err \in ThrottleErrors
    /\ (g_calls # <<>> /\ ~Last(g_calls).ok /\ Last(g_calls).err \notin ThrottleErrors) =>
          (spc # "gemini" /\ backend_used # "Gemini" /\ (spc = "check" => raw_text.is_none))
    /\ (g_calls # <<>> /\ Last(g_calls).ok) =>
          /\ o_calls = <<>>
          /\ backend_used = "Gemini"
          /\ raw_text = Text(Last(g_calls).text)
          /\ spc \in {"check", "parse", "returned", "raised"}

\* two rate-limit errors, then a success on the third call, whose record is returned
C5_Witness ==
    /\ Len(g_calls) = 3
    /\ g_calls[1] = ErrOutcome(E_rate) /\ g_calls[2] = ErrOutcome(E_rate)
    /\ g_calls[3].ok
    /\ spc = "returned" /\ Len(s_result) = 1
    /\ o_calls = <<>>

\* C6 as stated: the secondary backend is called at most once per analysis.
C6_SecondaryCalledOnce == Len(o_calls) <= 1

\* C6 amended: the secondary runs under the same retry policy as the primary:
\* at most 3 calls, every call but the last failed with a throttling/quota
\* error, and a non-retryable failure or a third failure yields the empty result.
C6_SecondaryRetryPolicy ==
    /\ Len(o_calls) <= 3
    /\ \A k \in 1..(Len(o_calls) - 1) :
          ~o_calls[k].ok /\ o_calls[k].err \in ThrottleErrors
    /\ (/\ o_calls # <<>>
        /\ ~Last(o_calls).ok
        /\ (Last(o_calls).err \notin ThrottleErrors \/ Len(o_calls) = 3)) =>
          (spc = "returned" /\ s_result = <<>>)

\* the secondary was called three times and failed each time
C6_Witness ==
    /\ Len(o_calls) = 3
    /\ ~Last(o_calls).ok
    /\ spc = "returned"

\* C7: whatever text a backend returned, the analysis does not raise.
C7_NeverRaises == spc # "raised"

-----------------------------------------------------------------------------
(* Properties of the detailed scan *)

Count(q, v) == Cardinality({k \in 1..Len(q) : q[k] = v})

RECURSIVE CountIn(_, _, _)
CountIn(T, t, v) ==
    IF T = {} THEN 0
    ELSE LET i == CHOOSE j \in T : TRUE
         IN  (IF t[i].ok THEN Count(t[i].recs, v) ELSE 0) + CountIn(T \ {i}, t, v)

DraftValues == {ReceiptA, ReceiptA_tile, ReceiptB_tile}

\* C8: the list holds the whole-image drafts first, then exactly the drafts of
\* the succeeded tiles handled so far, each once; at reconciliation every tile
\* task has run to completion and has been handled, so the list is the
\* whole-image drafts plus the drafts of every succeeded tile.
C8_DraftsExactlyOnce ==
    /\ dpc \in {"tiling", "submit", "collect", "merge", "returned"} =>
          /\ SubSeq(all_records, 1, Len(whole_out)) = whole_out
          /\ \A v \in DraftValues :
                Count(all_records, v) = Count(whole_out, v) + CountIn(collected, task, v)
    /\ dpc \in {"merge", "returned"} =>
          /\ collected = Tiles
          /\ \A i \in Tiles : task[i].st = "done"

\* tile 0 failed, the four others succeeded with a draft each, and they were
\* handled out of tile order (a tile-B draft before the last tile-A draft)
C8_Witness ==
    /\ dpc = "returned"
    /\ whole_out = <<ReceiptA>>
    /\ ~task[0].ok
    /\ \A i \in 1..4 : task[i].ok /\ Len(task[i].recs) = 1
    /\ all_records = <<ReceiptA, ReceiptB_tile, ReceiptA_tile, ReceiptB_tile, ReceiptA_tile>>

\* C9: the file of a tile exists while its task is queued or running, is gone
\* once the task's future has been handled, whether it succeeded or failed,
\* and no tile file is left when the analysis returns or raises.
C9_TileFilesDeleted ==
    /\ \A i \in Tiles : task[i].st \in {"queued", "running"} => i \in files
    /\ \A i \in collected : i \notin files
    /\ dpc \in {"merge", "returned", "raised"} => files = {}

\* the analysis returned after a tile failed and another succeeded
C9_Witness ==
    /\ dpc = "returned"
    /\ files = {}
    /\ \E i, j \in Tiles : ~task[i].ok /\ task[j].ok /\ task[j].recs # <<>>

\* C10: no tile file exists and no tile is submitted while the whole-image
\* pass is running, and reconciliation is entered only with every tile task
\* completed or failed.
C10_WholeThenTilesThenMerge ==
    /\ dpc = "whole" => (files = {} /\ \A i \in Tiles : task[i].st = "none")
    /\ (dpc \in {"merge", "returned"} \/ mphase # "idle") =>
          \A i \in Tiles : task[i].st = "done"

\* reconciliation has run on a list holding whole-image and tile drafts
C10_Witness ==
    /\ dpc = "returned" /\ mphase = "merged"
    /\ whole_out # <<>>
    /\ Len(all_records) > Len(whole_out)
    /\ \E i \in Tiles : ~task[i].ok

NumInState(st) == Cardinality({i \in Tiles : task[i].st = st})

\* C11: a detailed scan submits one OCR task per tile, five in all (none
\* before the tiles are cut, all five once the submission loop is over), and
\* at no time are more than 3 of them running.
C11_FiveTasksAtMostThreeRunning ==
    /\ Cardinality(Tiles) = 5
    /\ NumInState("running") <= 3
    /\ dpc \in {"whole", "tiling"} => NumInState("none") = 5
    /\ dpc \in {"collect", "merge", "returned"} => NumInState("none") = 0

\* the pool is saturated: three tiles are being analysed and two wait
C11_Witness ==
    /\ dpc = "collect"
    /\ NumInState("running") = 3
    /\ NumInState("queued") = 2

-----------------------------------------------------------------------------
(* Properties of the reconciliation pass *)

RECURSIVE SumSizes(_)
SumSizes(gs) == IF gs = <<>> THEN 0 ELSE Len(Head(gs).members) + SumSizes(Tail(gs))

GroupsOf(i) == {k \in 1..Len(groups) : i \in Range(groups[k].members)}

TierRank(gid) ==
    CASE gid[1] = "fuzzy" -> 1 [] gid[1] = "strat2" -> 2 [] gid[1] = "strat3" -> 3 [] OTHER -> 4

\* C1: for a non-empty list of n drafts, every draft is in exactly one group,
\* the group sizes sum to n, one record is emitted per group (a member of that
\* group), the output count is between 1 and n, and no draft taken by a tier
\* appears in a group of a later tier.
C1_ExactPartition ==
    (mphase = "merged" /\ Len(records) > 0) =>
        /\ \A i \in 1..Len(records) : Cardinality(GroupsOf(i)) = 1
        /\ SumSizes(groups) = Len(records)
        /\ Len(merged_results) = Len(groups)
        /\ \A k \in 1..Len(groups) : merged_results[k] \in Range(groups[k].members)
        /\ 1 <= Len(merged_results) /\ Len(merged_results) <= Len(records)
        /\ \A k, l \in 1..Len(groups) :
              TierRank(groups[k].gid) < TierRank(groups[l].gid) =>
                  Range(groups[k].members) \cap Range(groups[l].members) = {}

\* a fuzzy group holds a draft whose tier-3 key a later singleton shares: the
\* singleton would have been merged with it had the fuzzy tier not claimed it
C1_Witness ==
    /\ mphase = "merged"
    /\ \E k, l \in 1..Len(groups) :
          /\ groups[k].gid[1] = "fuzzy"
          /\ groups[l].gid[1] = "single"
          /\ \E i \in Range(groups[k].members) :
                /\ key3(records[i]) # <<>>
                /\ key3(records[i]) = key3(records[groups[l].members[1]])

\* C2: in every returned record the confirmed and the candidate invoice
\* identifier are never both non-empty (drafts satisfy this by construction).
C2_ConfirmedXorCandidate ==
    /\ \A i \in 1..Len(records) :
          mphase = "drafts" =>
              ~(records[i].invoice_no_norm # "" /\ records[i].invoice_candidate # "")
    /\ mphase = "merged" =>
          \A k \in 1..Len(merged_results) :
              ~(/\ records[merged_results[k]].invoice_no_norm # ""
                /\ records[merged_results[k]].invoice_candidate # "")

\* C3: a reconciled record needs review whenever it has missing fields or any
\* member of its group needed review.
C3_NeedsReviewIsOr ==
    mphase = "merged" =>
        \A k \in 1..Len(groups) :
            (\/ records[merged_results[k]].missing_fields # <<>>
             \/ \E m \in Range(groups[k].members) : records[m].needs_review)
                => records[merged_results[k]].needs_review

\* positions (in group order) of the members that hold a confirmed invoice
Confirmed(recs, members) == {l \in 1..Len(members) : recs[members[l]].invoice_no_norm # ""}

\* C12: reconciliation leaves the representative of every multi-member group
\* with a confirmed invoice identifier whenever a member had one before: the
\* representative's own if it had one, otherwise that of the first member in
\* group order that has one; with no such member it stays empty.
C12_RepresentativeKeepsConfirmedInvoice ==
    [][(mphase = "drafts" /\ mphase' = "merged") =>
         \A k \in 1..Len(groups') :
            Len(groups'[k].members) > 1 =>
               LET ms   == groups'[k].members
                   b    == merged_results'[k]
                   have == Confirmed(records, ms)
                   first == ms[CHOOSE l \in have : \A l2 \in have : l <= l2]
               IN  records'[b].invoice_no_norm =
                      IF records[b].invoice_no_norm # "" THEN records[b].invoice_no_norm
                      ELSE IF have # {} THEN records[first].invoice_no_norm
                      ELSE ""]_vars

\* a representative that had only a candidate has adopted the confirmed
\* identifier of the first of two members that hold different ones
C12_Witness ==
    /\ mphase = "merged"
    /\ \E k \in 1..Len(groups) :
          LET ms == groups[k].members
              b  == merged_results[k]
          IN  /\ Len(ms) = 3
              /\ records[b].invoice_candidate # ""
              /\ b = ms[3]
              /\ records[ms[1]].invoice_no_norm = T2
              /\ records[ms[2]].invoice_no_norm = T1
              /\ records[b].invoice_no_norm = T2

\* C13: no group of any tier holds two drafts with different total amounts,
\* and two drafts with different amounts are emitted as different records.
C13_DifferentAmountsNeverGrouped ==
    mphase = "merged" =>
        /\ \A k \in 1..Len(groups) : \A i, j \in Range(groups[k].members) :
              records[i].total_amount = records[j].total_amount
        /\ \A i, j \in 1..Len(records) :
              records[i].total_amount # records[j].total_amount =>
                  /\ GroupsOf(i) \cap GroupsOf(j) = {}
                  /\ \A k \in GroupsOf(i), l \in GroupsOf(j) :
                        merged_results[k] # merged_results[l]

\* two drafts are merged by some tier while a third, equal to one of them in
\* everything but the amount, stays separate: two records are returned
C13_Witness ==
    /\ mphase = "merged"
    /\ Len(records) = 3 /\ Len(merged_results) = 2
    /\ \E k \in 1..Len(groups) :
          /\ Len(groups[k].members) = 2
          /\ \E i \in Range(groups[k].members), j \in 1..Len(records) :
                /\ j \notin Range(groups[k].members)
                /\ records[j].total_amount # records[i].total_amount
                /\ records[j].date = records[i].date
                /\ records[j].vendor = records[i].vendor
                /\ records[j].subject = records[i].subject

\* C14: any two drafts of one fuzzy-match group have the same date and the
\* same amount, and their normalised vendors are equal, or one is empty or
\* unrecognised, or one contains the other.
C14_FuzzyGroupPairwiseMatch ==
    mphase = "merged" =>
        \A k \in 1..Len(groups) :
            groups[k].gid[1] = "fuzzy" =>
                \A i, j \in Range(groups[k].members) :
                    /\ records[i].date = records[j].date
                    /\ records[i].total_amount = records[j].total_amount
                    /\ vendor_match(normalize_text(records[i].vendor),
                                    normalize_text(records[j].vendor))

\* C15: the drafts of a fallback-tier group share the amount, a non-empty
\* normalised vendor and a non-empty normalised subject; drafts whose
\* normalised subject or vendor is empty are not merged by this tier.
C15_FallbackKeyNonEmpty ==
    mphase = "merged" =>
        \A k \in 1..Len(groups) :
            groups[k].gid[1] = "strat3" =>
                \A i, j \in Range(groups[k].members) :
                    /\ records[i].total_amount = records[j].total_amount
                    /\ normalize_text(records[i].vendor) = normalize_text(records[j].vendor)
                    /\ normalize_text(records[i].vendor) # <<>>
                    /\ normalize_text(records[i].subject) = normalize_text(records[j].subject)
                    /\ normalize_text(records[i].subject) # <<>>

\* the score table of the representative selection, entry by entry
StatedScore(rec) ==
    LET pts(cond, n) == IF cond THEN n ELSE 0
    IN    pts(rec.invoice_no_norm # "", 30)
        + pts(rec.invoice_candidate # "", 10)
        + pts(rec.date # "", 20)
        + pts(rec.vendor \notin {<<>>, <<"?">>}, 15)
        + pts(rec.total_amount > 0, 15)
        + pts(rec.tax_rate_detected # "unknown", 10)
        + pts(rec.payment_method # "unknown", 10)
        - 5 * Len(rec.missing_fields)
        - pts(rec.needs_review, 5)

\* C16: the representative of every multi-member group is a member whose
\* score (taken on the drafts as they enter reconciliation) is maximal in the
\* group, and every member before it in group order scores strictly less.
C16_RepresentativeIsFirstMaxScore ==
    [][(mphase = "drafts" /\ mphase' = "merged") =>
         \A k \in 1..Len(groups') :
            Len(groups'[k].members) > 1 =>
               LET ms == groups'[k].members
                   b  == merged_results'[k]
               IN  \E p \in 1..Len(ms) :
                      /\ ms[p] = b
                      /\ \A l \in 1..Len(ms) :
                            StatedScore(records[ms[l]]) <= StatedScore(records[b])
                      /\ \A l \in 1..(p - 1) :
                            StatedScore(records[ms[l]]) < StatedScore(records[b])]_vars

\* a group of three without any confirmed invoice (so no score changed in the
\* merge): the first member scores less, the second and third tie at the
\* maximum, and the second is the representative
C16_Witness ==
    /\ mphase = "merged"
    /\ \E k \in 1..Len(groups) :
          LET ms == groups[k].members
          IN  /\ Len(ms) = 3
              /\ \A l \in 1..3 : records[ms[l]].invoice_no_norm = ""
              /\ StatedScore(records[ms[1]]) < StatedScore(records[ms[2]])
              /\ StatedScore(records[ms[3]]) = StatedScore(records[ms[2]])
              /\ merged_results[k] = ms[2]

-----------------------------------------------------------------------------
(* Properties of the field normalisers *)

\* the n-th digit (from the first) of the plain run the inputs are built from
PlainDigits(d, f) == [k \in 1..d |-> DigitChars[(IF k = 1 THEN f ELSE k % 10) + 1]]

\* the spec's example: full-width T, full-width digits, U+2212 separators
FullWidthExample == RawInvoice(<<>>, <<"FW_T">>, 13, 1, <<"MINUS">>, TRUE)

\* C17: after folding and removal of dashes and white space, a string that
\* starts with T and has d ASCII digits after it gives T+digits with high
\* confidence for d = 13, T0+digits with low confidence for d = 12, T+digits
\* without their leading 0 with low confidence for d = 14 and first digit 0,
\* and the empty result otherwise; a string not starting with T gives empty.
\* The second conjunct says the same from the way the input was written.
C17_NormalizeInvoiceTable ==
    xpc = "done" =>
        /\ LET s  == fold_and_strip(x_in.raw)
               ds == IF s = <<>> THEN <<>> ELSE ascii_digits(Tail(s))
           IN  IF s # <<>> /\ Head(s) = "T"
               THEN CASE Len(ds) = 13 -> x_out = [norm |-> <<"T">> \o ds, low |-> FALSE]
                      [] Len(ds) = 12 -> x_out = [norm |-> <<"T", "0">> \o ds, low |-> TRUE]
                      [] Len(ds) = 14 /\ Head(ds) = "0" ->
                             x_out = [norm |-> <<"T">> \o Tail(ds), low |-> TRUE]
                      [] OTHER -> x_out = [norm |-> <<>>, low |-> FALSE]
               ELSE x_out = [norm |-> <<>>, low |-> FALSE]
        /\ LET ds == PlainDigits(x_in.d, x_in.f)
           IN  IF x_in.head \in {<<"T">>, <<"FW_T">>}
               THEN CASE x_in.d = 13 -> x_out = [norm |-> <<"T">> \o ds, low |-> FALSE]
                      [] x_in.d = 12 -> x_out = [norm |-> <<"T", "0">> \o ds, low |-> TRUE]
                      [] x_in.d = 14 /\ x_in.f = 0 ->
                             x_out = [norm |-> <<"T">> \o Tail(ds), low |-> TRUE]
                      [] OTHER -> x_out = [norm |-> <<>>, low |-> FALSE]
               ELSE x_out = [norm |-> <<>>, low |-> FALSE]

\* the full-width example has been normalised to T1234567890123
C17_Witness ==
    /\ xpc = "done"
    /\ x_in = FullWidthExample
    /\ x_out = [norm |-> <<"T", "1", "2", "3", "4", "5", "6", "7", "8", "9", "0", "1", "2", "3">>,
                low |-> FALSE]

HintOk == x_in.ai_raw # <<>> /\ normalize_invoice_candidate(x_in.ai_raw).norm # <<>>

Windows == label_windows(x_in.ocr_text)

PatternOk(k) == pattern_in(Windows[k]).norm # <<>>

MergeOk(k) == merge_in(Windows[k]).norm # <<>>

WholeOk == pattern_in(x_in.ocr_text).norm # <<>>

\* C18 as stated: the hint wins when it normalises; a token-merge result is
\* returned only when no label window has a pattern match that normalises;
\* a whole-text result only when hint, window patterns and token merge all fail.
C18_StrategiesInGlobalOrder ==
    xpc = "done" =>
        /\ HintOk => x_out.src = "hint"
        /\ x_out.src = "label" => ~HintOk
        /\ x_out.src = "merge" => (~HintOk /\ \A k \in 1..Len(Windows) : ~PatternOk(k))
        /\ x_out.src = "whole" =>
              (~HintOk /\ \A k \in 1..Len(Windows) : ~PatternOk(k) /\ ~MergeOk(k))

\* C18 amended: the hint wins when it normalises; otherwise the label windows
\* are taken in order (keywords in list order, occurrences in text order) and
\* in each window the pattern matches are tried before the token merge of that
\* same window: a pattern result comes from the first window that has a
\* pattern or a token-merge success, a token-merge result from the first such
\* window when its own pattern fails (a later window may still hold a pattern
\* match); the whole-text search is used only when every window fails both.
C18_StrategiesPerWindow ==
    xpc = "done" =>
        /\ HintOk => (x_out.src = "hint"
                        /\ x_out.norm = normalize_invoice_candidate(x_in.ai_raw).norm)
        /\ x_out.src = "hint" => HintOk
        /\ x_out.src = "label" =>
              /\ ~HintOk
              /\ \E k \in 1..Len(Windows) :
                    /\ PatternOk(k)
                    /\ x_out.norm = pattern_in(Windows[k]).norm
                    /\ \A l \in 1..(k - 1) : ~PatternOk(l) /\ ~MergeOk(l)
        /\ x_out.src = "merge" =>
              /\ ~HintOk
              /\ \E k \in 1..Len(Windows) :
                    /\ ~PatternOk(k) /\ MergeOk(k)
                    /\ x_out.norm = merge_in(Windows[k]).norm
                    /\ \A l \in 1..(k - 1) : ~PatternOk(l) /\ ~MergeOk(l)
        /\ x_out.src = "whole" =>
              /\ ~HintOk
              /\ \A k \in 1..Len(Windows) : ~PatternOk(k) /\ ~MergeOk(k)
              /\ WholeOk /\ x_out.norm = pattern_in(x_in.ocr_text).norm
        /\ x_out.src = "none" =>
              /\ ~HintOk /\ x_out.norm = <<>>
              /\ x_in.ocr_text = <<>> \/
                    (~WholeOk /\ \A k \in 1..Len(Windows) : ~PatternOk(k) /\ ~MergeOk(k))

\* the token merge of the first window was returned although the second
\* window holds a pattern match of 13 digits
C18_Witness ==
    /\ xpc = "done"
    /\ x_out.src = "merge"
    /\ Len(Windows) = 2
    /\ MergeOk(1) /\ ~PatternOk(1)
    /\ PatternOk(2) /\ ~pattern_in(Windows[2]).low
    /\ x_out.norm # pattern_in(Windows[2]).norm

\* number of ASCII digits after the T of a folded and stripped string
DigitsAfterT(raw) ==
    LET t == fold_and_strip(raw)
    IN  IF t = <<>> THEN 0 ELSE Len(ascii_digits(Tail(t)))

\* C19: the draft's confirmed identifier is non-empty only when the identifier
\* came from the hint or from a label-window pattern match, with exactly 13
\* digits; an identifier found by token merge or by the whole-text search
\* (whatever its digit count) or completed from 12 or cut from 14 digits is
\* stored as the candidate, the confirmed identifier is empty and the draft
\* needs review.
C19_ConfirmedOnlyFromHintOrLabel13 ==
    xpc = "done" =>
        /\ x_out.draft.invoice_no_norm # "" =>
              /\ x_out.src \in {"hint", "label"}
              /\ x_out.draft.invoice_no_norm = invoice_text(x_out.norm)
              /\ Len(x_out.norm) = 14
              /\ x_out.src = "hint" => DigitsAfterT(x_in.ai_raw) = 13
              /\ x_out.src = "label" =>
                    \E k \in 1..Len(Windows) :
                        \E c \in Range(findall_t_number(Windows[k], 1)) :
                            /\ DigitsAfterT(c) = 13
                            /\ normalize_invoice_candidate(c).norm = x_out.norm
        /\ (x_out.norm # <<>> /\ (x_out.src \in {"merge", "whole"} \/ x_out.low)) =>
              /\ x_out.draft.invoice_no_norm = ""
              /\ x_out.draft.invoice_candidate = invoice_text(x_out.norm)
              /\ x_out.draft.needs_review
        /\ (x_out.src = "hint" /\ DigitsAfterT(x_in.ai_raw) # 13) => x_out.low
        /\ x_out.norm = <<>> =>
              (x_out.draft.invoice_no_norm = "" /\ x_out.draft.invoice_candidate = "")

\* a 13-digit identifier put together by the token merge is held as candidate
C19_Witness ==
    /\ xpc = "done"
    /\ x_out.src = "merge"
    /\ x_out.norm = <<"T">> \o PlainDigits(13, 1)
    /\ x_out.draft.invoice_no_norm = ""
    /\ x_out.draft.invoice_candidate = "T1234567890123"
    /\ x_out.draft.needs_review

\* the syntactically valid matches of the text, with the stated score of each
StatedDateCandidates ==
    LET ok(m) == /\ m.month \in 1..12 /\ m.day \in 1..31 /\ m.year \in 2000..2099
        ms == SelectSeq(date_matches(x_in.ocr_text), ok)
        labelled(m) == \E lp \in label_positions(x_in.ocr_text) : m.pos - lp \in 0..30
        inwin(m) == m.year \in (CURRENT_YEAR - 2)..(CURRENT_YEAR + 2)
    IN  [k \in 1..Len(ms) |->
            [date |-> date_str(ms[k].year, ms[k].month, ms[k].day),
             pos |-> ms[k].pos,
             labelled |-> labelled(ms[k]),
             inwin |-> inwin(ms[k]),
             score |-> (IF labelled(ms[k]) THEN 10 ELSE 0) + (IF inwin(ms[k]) THEN 5 ELSE -5)]]

\* C20: when the text holds a valid date candidate, the date returned is that
\* of a candidate of maximal score (+10 labelled, +5 year in window else -5)
\* and, among those, of smallest position; so when a candidate is labelled and
\* in the window, the result is such a candidate and needs no review.
C20_BestDateMaxScore ==
    LET cs == StatedDateCandidates
    IN  (xpc = "done" /\ cs # <<>>) =>
            /\ \E k \in 1..Len(cs) :
                  /\ x_out.date = cs[k].date
                  /\ x_out.score = cs[k].score
                  /\ x_out.needs_review = ~cs[k].inwin
                  /\ \A l \in 1..Len(cs) :
                        /\ cs[l].score <= cs[k].score
                        /\ cs[l].score = cs[k].score => cs[k].pos <= cs[l].pos
            /\ (\E k \in 1..Len(cs) : cs[k].labelled /\ cs[k].inwin) =>
                  /\ \E k \in 1..Len(cs) :
                        cs[k].labelled /\ cs[k].inwin /\ x_out.date = cs[k].date
                  /\ ~x_out.needs_review
                  /\ x_out.score = 15

\* two valid candidates in the window: the first is not labelled, the second
\* is, and the second is returned without a review flag over the AI value
C20_Witness ==
    LET cs == StatedDateCandidates
    IN  /\ xpc = "done"
        /\ Len(cs) = 2
        /\ \E a, b \in 1..2 :
              /\ cs[a].pos < cs[b].pos
              /\ ~cs[a].labelled /\ cs[a].inwin
              /\ cs[b].labelled /\ cs[b].inwin
              /\ x_out.date = cs[b].date
              /\ x_out.date # cs[a].date
        /\ ~x_out.needs_review
        /\ x_in.ai_date # <<>> /\ x_in.ai_date # x_out.date

\* the year a returned date string starts with, 0 when it does not start with digits
ReturnedYear(date) ==
    LET cut == IF \E q \in 1..Len(date) : date[q] = "/"
               THEN (CHOOSE q \in 1..Len(date) : date[q] = "/" /\ \A r \in 1..(q - 1) : date[r] # "/") - 1
               ELSE Len(date)
    IN  IF cut >= 1 /\ \A q \in 1..cut : date[q] \in Digs THEN to_int(SubSeq(date, 1, cut)) ELSE 0

\* C21: whenever the returned date is empty or its year lies outside
\* [CURRENT_YEAR - 2, CURRENT_YEAR + 2], needs_review is true, with or without
\* recognized text and whether the date comes from the text or from the AI value.
C21_ReviewWhenDateEmptyOrOutOfWindow ==
    xpc = "done" =>
        ((\/ x_out.date = <<>>
          \/ /\ ReturnedYear(x_out.date) # 0
             /\ ~(ReturnedYear(x_out.date) \in (CURRENT_YEAR - 2)..(CURRENT_YEAR + 2)))
            => x_out.needs_review)

-----------------------------------------------------------------------------
(* Properties of a repeated reconciliation *)

\* the drafts a and b match under one of the three tiers
DraftsMatch(a, b) ==
    \/ /\ a.date # "" /\ a.total_amount > 0
       /\ a.date = b.date /\ a.total_amount = b.total_amount
       /\ LET v1 == normalize_text(a.vendor)
              v2 == normalize_text(b.vendor)
          IN  \/ v1 = v2 \/ v1 = <<>> \/ v2 = <<>>
              \/ v1 = Txt_unknown \/ v2 = Txt_unknown
              \/ IsSubstr(v1, v2) \/ IsSubstr(v2, v1)
    \/ /\ a.date # "" /\ a.total_amount > 0 /\ normalize_text(a.subject) # <<>>
       /\ a.date = b.date /\ a.total_amount = b.total_amount
       /\ normalize_text(a.subject) = normalize_text(b.subject)
    \/ /\ a.total_amount > 0 /\ a.vendor # <<>> /\ a.vendor # Txt_q
       /\ b.vendor # <<>> /\ b.vendor # Txt_q
       /\ a.total_amount = b.total_amount
       /\ normalize_text(a.vendor) = normalize_text(b.vendor)
       /\ normalize_text(a.subject) = normalize_text(b.subject)

NoTwoMatch(recs) ==
    \A i, j \in 1..Len(recs) : i # j => ~DraftsMatch(recs[i], recs[j])

\* the list a call of _merge_records is given: the drafts, then its own output
MergeInput == IF mphase = "drafts" THEN records ELSE Output

\* C22: a call of _merge_records on a list in which no two drafts match under
\* any tier forms singleton groups only and returns exactly the list it was
\* given, no field changed; so the second call, on that output, returns the
\* same records again.
C22_SingletonsOnlyIsIdempotent ==
    [][(mphase' # mphase /\ NoTwoMatch(MergeInput)) =>
          /\ \A k \in 1..Len(groups') : Len(groups'[k].members) = 1
          /\ Output' = MergeInput
          /\ records' = MergeInput
          /\ mphase = "merged" => Range(Output') = Range(Output)]_vars

\* a second call has returned three drafts, no two matching although two of
\* them share amount and vendor
C22_Witness ==
    /\ mphase = "remerged"
    /\ Len(records) = 3
    /\ NoTwoMatch(records)
    /\ Output = records
    /\ \E i, j \in 1..3 :
          /\ i # j
          /\ records[i].total_amount = records[j].total_amount
          /\ records[i].vendor = records[j].vendor
          /\ records[i].subject # records[j].subject
    /\ \A i \in 1..3 : records[i].merge_candidates = <<>> /\ records[i].group_id = <<>>

\* C23: _merge_records leaves every field of every draft as it was: the raw
\* draft list returned with the reconciled records equals the list passed in.
C23_DraftsNotChanged ==
    [][(mphase = "drafts" /\ mphase' = "merged") => records' = records]_vars

-----------------------------------------------------------------------------
(* Properties of the merge metadata *)

\* the tier a reason string names, "" when it names none
NamedTier(reason) ==
    CASE reason = "Fuzzy Match (Date/Amount + Vendor)"     -> "fuzzy"
      [] reason = "Exact Match (Date/Amount/Subject)"      -> "strat2"
      [] reason = "Fallback Match (Amount/Vendor/Subject)" -> "strat3"
      [] OTHER -> ""

\* the members of group g agree on the fields the tier compares
TierFormed(tier, g) ==
    LET first == records[g.members[1]]
    IN  \A k \in 2..Len(g.members) :
          LET r == records[g.members[k]]
          IN  CASE tier = "fuzzy"  -> first.date = r.date /\ first.total_amount = r.total_amount
                [] tier = "strat2" -> /\ first.date = r.date
                                      /\ first.total_amount = r.total_amount
                                      /\ normalize_text(first.subject) = normalize_text(r.subject)
                [] tier = "strat3" -> /\ first.total_amount = r.total_amount
                                      /\ normalize_text(first.vendor) = normalize_text(r.vendor)
                                      /\ normalize_text(first.subject) = normalize_text(r.subject)
                [] OTHER -> FALSE

\* C24: the record emitted for a group of two or more drafts has one provenance
\* entry per member, in member order, and a group identifier and merge reason
\* that both name the tier whose rule the members satisfy; a record emitted for
\* a singleton group has no provenance, group identifier or merge reason.
C24_MergeMetadata ==
    mphase = "merged" =>
        \A k \in 1..Len(groups) :
            LET g == groups[k]
                r == records[merged_results[k]]
            IN  IF Len(g.members) > 1
                THEN /\ Len(r.merge_candidates) = Len(g.members)
                     /\ \A m \in 1..Len(g.members) :
                           /\ r.merge_candidates[m].date = records[g.members[m]].date
                           /\ r.merge_candidates[m].vendor = records[g.members[m]].vendor
                           /\ r.merge_candidates[m].total_amount = records[g.members[m]].total_amount
                           /\ r.merge_candidates[m].needs_review = records[g.members[m]].needs_review
                     /\ r.group_id # <<>>
                     /\ NamedTier(r.merge_reason) \in {"fuzzy", "strat2", "strat3"}
                     /\ r.group_id[1] = NamedTier(r.merge_reason)
                     /\ TierFormed(NamedTier(r.merge_reason), g)
                ELSE /\ r.merge_candidates = <<>>
                     /\ r.group_id = <<>>
                     /\ r.merge_reason = ""

\* three drafts: two merged by the fallback tier and one left alone
C24_Witness ==
    /\ mphase = "merged"
    /\ Len(records) = 3
    /\ Len(groups) = 2
    /\ \E k, l \in 1..2 :
          /\ Len(groups[k].members) = 2
          /\ records[merged_results[k]].merge_reason = "Fallback Match (Amount/Vendor/Subject)"
          /\ Len(records[merged_results[k]].merge_candidates) = 2
          /\ Len(groups[l].members) = 1
          /\ records[merged_results[l]].merge_reason = ""

-----------------------------------------------------------------------------
(* Properties of the provenance of a detailed scan *)

\* C25: in the records a detailed scan returns, the provenance entry of a draft
\* of the whole-image pass says "full" and that of a draft of a tile pass says
\* "split" (the whole-image drafts are the first Len(whole_out) of the list).
C25_SourceTellsWholeFromTile ==
    dpc = "returned" =>
        \A k \in 1..Len(groups) :
            Len(groups[k].members) > 1 =>
                \A m \in 1..Len(groups[k].members) :
                    records[merged_results[k]].merge_candidates[m].source
                        = IF groups[k].members[m] <= Len(whole_out) THEN "full" ELSE "split"

-----------------------------------------------------------------------------
(* Properties of the response parser *)

\* the JSON documents a response text consists of, alone or between two
\* code-fence lines; empty when the text is no JSON document
DocumentsOf(text) ==
    {v \in JsonValues : text = <<JsonLine(v)>> \/ text = <<FenceLine, JsonLine(v), FenceLine>>}

\* C26: when the response text is parsed, a JSON array, fenced or not, gives
\* its items, a bare JSON object gives a one-element list, a text that is not
\* a JSON document gives the empty list, and whenever the parser gives the
\* empty list the analysis returns no draft and does not raise.
C26_ParseResponseText ==
    [][spc = "parse" =>
          LET text      == raw_text.lines
              extracted == parse_response_text(text)
          IN  /\ \A v \in DocumentsOf(text) :
                    /\ v.t = "list" => extracted = v.items
                    /\ (v.t = "bare" /\ v.elem.obj) => extracted = <<v.elem>>
              /\ DocumentsOf(text) = {} => extracted = <<>>
              /\ extracted = <<>> => (spc' = "returned" /\ s_result' = <<>>)]_vars

\* a fenced bare object has been parsed and converted into one draft
C26_Witness ==
    /\ spc = "returned"
    /\ ~raw_text.is_none
    /\ raw_text.lines = <<FenceLine, JsonLine(JsonBare(GoodItem)), FenceLine>>
    /\ Len(s_result) = 1

-----------------------------------------------------------------------------
(* Properties of the tile coordinates *)

\* the tile lies inside its image
TileInside(off) ==
    /\ off.off_y >= 0 /\ off.off_x >= 0 /\ off.crop_h > 0 /\ off.crop_w > 0
    /\ off.off_y + off.crop_h <= off.orig_h
    /\ off.off_x + off.crop_w <= off.orig_w

\* c is within one of (off + local / 1000 * crop) / orig * 1000, the position
\* of the same point in whole-image coordinates
WithinRounding(c, local, off, crop, orig) ==
    /\ (c - 1) * orig <= off * 1000 + local * crop
    /\ off * 1000 + local * crop <= (c + 1) * orig

\* C27: for a tile inside its image, every coordinate of the converted box is
\* within one of (offset + local/1000 * crop) / orig * 1000 and within 0..1000,
\* an ordered box stays ordered, and [100,100,200,200] in the 200 x 200 tile at
\* (50,50) of a 400 x 400 image maps, within rounding, to [175,175,225,225].
C27_BoxToGlobal ==
    (xpc = "done" /\ x_in.box # NoBox /\ x_in.offset_info # NoOffset
        /\ TileInside(x_in.offset_info)) =>
        LET b   == x_in.box
            o   == x_in.offset_info
            reg == x_out.region
        IN  /\ Len(reg) = 4
            /\ WithinRounding(reg[1], b[1], o.off_y, o.crop_h, o.orig_h)
            /\ WithinRounding(reg[2], b[2], o.off_x, o.crop_w, o.orig_w)
            /\ WithinRounding(reg[3], b[3], o.off_y, o.crop_h, o.orig_h)
            /\ WithinRounding(reg[4], b[4], o.off_x, o.crop_w, o.orig_w)
            /\ \A k \in 1..4 : reg[k] \in 0..1000
            /\ b[1] <= b[3] => reg[1] <= reg[3]
            /\ b[2] <= b[4] => reg[2] <= reg[4]
            /\ (b = <<100, 100, 200, 200>> /\ o = ExampleTile) =>
                  /\ reg[1] \in 174..176 /\ reg[2] \in 174..176
                  /\ reg[3] \in 224..226 /\ reg[4] \in 224..226

\* the example box has been converted to [175,175,225,225]
C27_Witness ==
    /\ xpc = "done"
    /\ x_in.box = <<100, 100, 200, 200>>
    /\ x_in.offset_info = ExampleTile
    /\ x_out.region = <<175, 175, 225, 225>>

-----------------------------------------------------------------------------
(* Properties of the grouping across input orders *)

Orderings(n) == {p \in [1..n -> 1..n] : \A i, j \in 1..n : p[i] = p[j] => i = j}

\* the groups of a grouping as sets of positions of the list recs was permuted from
PartitionOf(gs, p) == {{p[gs[k].members[m]] : m \in 1..Len(gs[k].members)} : k \in 1..Len(gs)}

\* C28: for every reordering of the draft list, _merge_records returns the same
\* number of records and puts the same drafts together.
C28_OrderIndependent ==
    [][(mphase = "drafts" /\ mphase' = "merged" /\ records # <<>>) =>
          \A p \in Orderings(Len(records)) :
              LET gs == build_groups([i \in 1..Len(records) |-> records[p[i]]])
              IN  /\ Len(gs) = Len(merged_results')
                  /\ PartitionOf(gs, p)
                        = PartitionOf(groups', [i \in 1..Len(records) |-> i])]_vars

\* C29: no group holds two drafts with different non-empty confirmed invoice
\* identifiers.
C29_NoTwoConfirmedInvoicesMerged ==
    mphase = "merged" =>
        \A k \in 1..Len(groups) :
            \A i, j \in Range(groups[k].members) :
                (records[i].invoice_no_norm # "" /\ records[j].invoice_no_norm # "")
                    => records[i].invoice_no_norm = records[j].invoice_no_norm

\* C30: no group holds two drafts with different non-empty dates.
C30_NoTwoDatesMerged ==
    mphase = "merged" =>
        \A k \in 1..Len(groups) :
            \A i, j \in Range(groups[k].members) :
                (records[i].date # "" /\ records[j].date # "")
                    => records[i].date = records[j].date

====
